---- MODULE Spec2Model ----
(***************************************************************************)
(* Byte-level model of the ROSE format codecs: the skeleton reader/writer  *)
(* (rose_data.SkeletonData, BoneData), the animation reader                *)
(* (rose_data.AnimationData) and the mesh reader                           *)
(* (zms_import.MeshImportData), over the primitives of utils.py.           *)
(*                                                                         *)
(* A stream is a sequence of bytes (0..255) with a cursor `pos`.  A read   *)
(* of n bytes past the end returns fewer bytes, which struct.unpack        *)
(* rejects with struct.error; the cursor is then at the end of the stream. *)
(*                                                                         *)
(* float32 values are modelled as decimal floating point numbers           *)
(* m * 100^(-e): the mantissa m is held in bytes 0..2 of the field         *)
(* (little-endian, two's complement) and the exponent e in byte 3, so that *)
(* dividing by 100 and multiplying by 100 are exact and are not the        *)
(* identity.                                                               *)
(***************************************************************************)
EXTENDS Integers, Sequences, FiniteSets, TLC

VARIABLES
    file,         \* bytes of the file opened for reading
    pos,          \* read cursor of f
    fopen,        \* whether the handle f is open
    pc,           \* position of the running call
    err,          \* the exception that ended the call, or "none"
    i,            \* loop index of the running loop
    bone_count,   \* _load_bones: the local bone_count, <<>> while unbound
    dummy_count,  \* _load_dummies: the local dummy_count, <<>> while unbound
    bstring,      \* read_str: the bytes accumulated so far
    ret,          \* read_str: the caller to return to
    format_code,  \* SkeletonData.format_code
    bones,        \* SkeletonData.bones
    dummies,      \* SkeletonData.dummies
    out,          \* bytes of the file opened for writing
    self,         \* the class of the object the call runs on
    j,            \* _load_channel_data: the channel index of the running loop
    fps,          \* AnimationData.fps
    frame_count,  \* AnimationData.frame_count
    channel_count,\* AnimationData.channel_count, <<>> while unset
    channels,     \* AnimationData.channels
    alpha,        \* _load_channel_data: the local alpha, <<>> while unbound
    identifier,   \* MeshImportData.identifier
    format,       \* MeshImportData.format
    bounding_box, \* MeshImportData.bounding_box: <<min, max>>
    vertices,     \* MeshImportData.vertices
    indices,      \* MeshImportData.indices
    materials,    \* MeshImportData.materials
    strips,       \* MeshImportData.strips
    pool,         \* MeshImportData.pool
    version,      \* MeshImportData.load: the local version, <<>> for None
    vert_count,   \* MeshImportData.load: the local vert_count
    skeleton_data,\* the SkeletonData whose save_data wrote the file that is
                  \* read, with the outcome of that call; <<>> if there is none
    skeleton      \* Skeleton._get_parent_rotation: its arguments and locals
                  \* (index, is_dummy, current, rotation); <<>> before a call

\* AnimationData holds format_code too, and MeshImportData holds bones: the
\* variables format_code and bones are the fields of whichever object self is.
animVars == <<j, fps, frame_count, channel_count, channels, alpha>>
meshVars == <<format, bounding_box, vertices, indices, materials, strips, pool,
              version, vert_count>>

vars == <<file, pos, fopen, pc, err, i, bone_count, dummy_count, bstring, ret,
          format_code, bones, dummies, out, self, identifier, animVars, meshVars,
          skeleton_data, skeleton>>

(***************************************************************************)
(* Bounds of the enumerated input files.                                   *)
(***************************************************************************)
MaxBones == 2
MaxDummies == 2

(***************************************************************************)
(* Sequences and bytes.                                                    *)
(***************************************************************************)
Take(s, n) == SubSeq(s, 1, n)

Min(a, b) == IF a < b THEN a ELSE b

\* f.read(n) at cursor p: the bytes returned (fewer than n at the end).
f_read(f, p, n) == SubSeq(f, p + 1, Min(p + n, Len(f)))

\* struct.unpack("<i", bs): little-endian two's complement, 4 bytes.
unpack_i32(bs) ==
    IF bs[4] >= 128
    THEN (bs[4] - 256) * 16777216 + bs[3] * 65536 + bs[2] * 256 + bs[1]
    ELSE bs[4] * 16777216 + bs[3] * 65536 + bs[2] * 256 + bs[1]

\* struct.pack("<i", v)
pack_i32(v) ==
    << v % 256, (v \div 256) % 256, (v \div 65536) % 256, (v \div 16777216) % 256 >>

\* struct.unpack("<h", bs): little-endian two's complement, 2 bytes.
unpack_i16(bs) ==
    IF bs[2] >= 128 THEN (bs[2] - 256) * 256 + bs[1] ELSE bs[2] * 256 + bs[1]

pack_i16(v) == << v % 256, (v \div 256) % 256 >>

\* A float: m * 100^(-e).
Fl(m) == [m |-> m, e |-> 0]

\* struct.unpack("<f", bs)
unpack_f32(bs) ==
    [m |-> IF bs[3] >= 128
           THEN (bs[3] - 256) * 65536 + bs[2] * 256 + bs[1]
           ELSE bs[3] * 65536 + bs[2] * 256 + bs[1],
     e |-> bs[4]]

\* struct.pack("<f", x)
pack_f32(x) == << x.m % 256, (x.m \div 256) % 256, (x.m \div 65536) % 256, x.e >>

\* x / 100
Div100(x) ==
    IF x.m = 0 THEN x
    ELSE IF x.e = 0 /\ x.m % 100 = 0 THEN [m |-> x.m \div 100, e |-> 0]
    ELSE [m |-> x.m, e |-> x.e + 1]

\* x * 100
Mul100(x) ==
    IF x.m = 0 THEN x
    ELSE IF x.e > 0 THEN [m |-> x.m, e |-> x.e - 1]
    ELSE [m |-> x.m * 100, e |-> 0]

(***************************************************************************)
(* utils.py: the read primitives.  Each returns [ok, v, p]: whether the    *)
(* read succeeded, the value, and the cursor afterwards.                   *)
(***************************************************************************)
read_i16(f, p) ==
    LET bs == f_read(f, p, 2) IN
    IF Len(bs) = 2 THEN [ok |-> TRUE, v |-> unpack_i16(bs), p |-> p + 2]
    ELSE [ok |-> FALSE, v |-> 0, p |-> Len(f)]

read_f32(f, p) ==
    LET bs == f_read(f, p, 4) IN
    IF Len(bs) = 4 THEN [ok |-> TRUE, v |-> unpack_f32(bs), p |-> p + 4]
    ELSE [ok |-> FALSE, v |-> Fl(0), p |-> Len(f)]

read_i32(f, p) ==
    LET bs == f_read(f, p, 4) IN
    IF Len(bs) = 4 THEN [ok |-> TRUE, v |-> unpack_i32(bs), p |-> p + 4]
    ELSE [ok |-> FALSE, v |-> 0, p |-> Len(f)]

read_vector3_f32(f, p) ==
    LET x == read_f32(f, p)
        y == read_f32(f, p + 4)
        z == read_f32(f, p + 8)
    IN  IF x.ok /\ y.ok /\ z.ok
        THEN [ok |-> TRUE, v |-> <<x.v, y.v, z.v>>, p |-> p + 12]
        ELSE [ok |-> FALSE, v |-> <<>>, p |-> Len(f)]

\* Quaternion((w, x, y, z)) or Vector((w, x, y, z)): the four floats in file order.
read_vector4_f32(f, p) ==
    LET w == read_f32(f, p)
        x == read_f32(f, p + 4)
        y == read_f32(f, p + 8)
        z == read_f32(f, p + 12)
    IN  IF w.ok /\ x.ok /\ y.ok /\ z.ok
        THEN [ok |-> TRUE, v |-> <<w.v, x.v, y.v, z.v>>, p |-> p + 16]
        ELSE [ok |-> FALSE, v |-> <<>>, p |-> Len(f)]

(***************************************************************************)
(* The EUC-KR code page, on the bytes the inputs use: a byte below 128 is  *)
(* the ASCII character of that code, the pair B0 A1 is U+AC00, and any     *)
(* other byte is not valid.                                                *)
(***************************************************************************)
LeadByte == 176
TrailByte == 161
Hangul == 44032

RECURSIVE euc_kr_decode(_)
\* bytes.decode("EUC-KR"): [ok, s], s the characters (code points).
euc_kr_decode(bs) ==
    IF bs = <<>> THEN [ok |-> TRUE, s |-> <<>>]
    ELSE IF bs[1] < 128
         THEN LET r == euc_kr_decode(Tail(bs)) IN
              [ok |-> r.ok, s |-> IF r.ok THEN <<bs[1]>> \o r.s ELSE <<>>]
    ELSE IF bs[1] = LeadByte /\ Len(bs) >= 2 /\ bs[2] = TrailByte
         THEN LET r == euc_kr_decode(Tail(Tail(bs))) IN
              [ok |-> r.ok, s |-> IF r.ok THEN <<Hangul>> \o r.s ELSE <<>>]
    ELSE [ok |-> FALSE, s |-> <<>>]

RECURSIVE euc_kr_encode(_)
\* bytes(s, "EUC-KR"): [ok, bs].
euc_kr_encode(s) ==
    IF s = <<>> THEN [ok |-> TRUE, bs |-> <<>>]
    ELSE IF s[1] < 128
         THEN LET r == euc_kr_encode(Tail(s)) IN
              [ok |-> r.ok, bs |-> IF r.ok THEN <<s[1]>> \o r.bs ELSE <<>>]
    ELSE IF s[1] = Hangul
         THEN LET r == euc_kr_encode(Tail(s)) IN
              [ok |-> r.ok, bs |-> IF r.ok THEN <<LeadByte, TrailByte>> \o r.bs ELSE <<>>]
    ELSE [ok |-> FALSE, bs |-> <<>>]

\* read_fstr(f, size): [ok, v, p]; a short read decodes the bytes there are.
read_fstr(f, p, size) ==
    LET d == euc_kr_decode(f_read(f, p, size)) IN
    [ok |-> d.ok, v |-> d.s, p |-> Min(p + size, Len(f))]

(***************************************************************************)
(* rose_data.py: BoneData.                                                 *)
(***************************************************************************)
Zero3 == <<Fl(0), Fl(0), Fl(0)>>

\* Quaternion(): the identity rotation, w = 1.
Identity == <<Fl(1), Fl(0), Fl(0), Fl(0)>>

\* BoneData()
BoneData == [parent |-> 0, name |-> <<>>, position |-> Zero3, rotation |-> Identity]

\* read_vector3_f32(f) / 100
Div100Vec(v) == <<Div100(v[1]), Div100(v[2]), Div100(v[3])>>

\* Mutant of load_position_rotation: the rotation is read whatever format_v_2 is.
load_position_rotation_ungated(f, p, b, format_v_2) ==
    LET v == read_vector3_f32(f, p) IN
    IF ~v.ok THEN [ok |-> FALSE, b |-> b, p |-> v.p]
    ELSE LET b1 == [b EXCEPT !.position = Div100Vec(v.v)]
             q == read_vector4_f32(f, v.p)
         IN  IF ~q.ok THEN [ok |-> FALSE, b |-> b1, p |-> q.p]
             ELSE [ok |-> TRUE, b |-> [b1 EXCEPT !.rotation = q.v], p |-> q.p]

\* BoneData.load_data, lines 125-128: position, then rotation unless format_v_2.
load_position_rotation(f, p, b, format_v_2) ==
    LET v == read_vector3_f32(f, p) IN
    IF ~v.ok THEN [ok |-> FALSE, b |-> b, p |-> v.p]
    ELSE LET b1 == [b EXCEPT !.position = Div100Vec(v.v)] IN
         IF format_v_2 THEN [ok |-> TRUE, b |-> b1, p |-> v.p]
         ELSE LET q == read_vector4_f32(f, v.p) IN
              IF ~q.ok THEN [ok |-> FALSE, b |-> b1, p |-> q.p]
              ELSE [ok |-> TRUE, b |-> [b1 EXCEPT !.rotation = q.v], p |-> q.p]

\* BoneData.load_data, line 121: self.parent = read_i32(f)
load_parent(f, p, b) ==
    LET r == read_i32(f, p) IN
    [ok |-> r.ok, b |-> IF r.ok THEN [b EXCEPT !.parent = r.v] ELSE b, p |-> r.p]

(***************************************************************************)
(* rose_data.py: SkeletonData.load_data.                                   *)
(***************************************************************************)
ZMD0002 == <<90, 77, 68, 48, 48, 48, 50>>
ZMD0003 == <<90, 77, 68, 48, 48, 48, 51>>

\* An exception leaves the with block: the handle is closed and the call ends.
Raise(kind) ==
    /\ pc' = "raised"
    /\ err' = kind
    /\ fopen' = FALSE

\* list[index] raises IndexError unless -len <= index < len.
IndexOK(index, len) == -len <= index /\ index < len

\* _print_data: whether every self.bones[bone.parent] it evaluates exists.
print_data_ok(bs, ds) ==
    /\ \A k \in 1..Len(bs) : IndexOK(bs[k].parent, Len(bs))
    /\ \A k \in 1..Len(ds) : IndexOK(ds[k].parent, Len(bs))

\* The end of load_data / save_data: the with block is left, then _print_data runs.
Finish(bs, ds, done) ==
    /\ fopen' = FALSE
    /\ IF print_data_ok(bs, ds)
       THEN pc' = done /\ err' = "none"
       ELSE pc' = "raised" /\ err' = "IndexError"

load_data ==
    /\ pc = "SkeletonData"
    /\ pc' = "_load_format_code"
    /\ fopen' = TRUE
    /\ pos' = 0
    /\ UNCHANGED <<skeleton, skeleton_data, self, identifier, animVars, meshVars>>
    /\ UNCHANGED <<file, err, i, bone_count, dummy_count, bstring, ret,
                   format_code, bones, dummies, out>>

_load_format_code ==
    /\ pc = "_load_format_code"
    /\ LET r == read_fstr(file, pos, 7) IN
       /\ pos' = r.p
       /\ IF ~r.ok
          THEN Raise("UnicodeDecodeError") /\ UNCHANGED format_code
          ELSE IF r.v = ZMD0003
          THEN format_code' = 3 /\ pc' = "_load_bones" /\ UNCHANGED <<err, fopen>>
          ELSE IF r.v = ZMD0002
          THEN format_code' = 2 /\ pc' = "_load_bones" /\ UNCHANGED <<err, fopen>>
          ELSE Raise("RoseParseError") /\ UNCHANGED format_code
    /\ UNCHANGED <<skeleton, skeleton_data, self, identifier, animVars, meshVars>>
    /\ UNCHANGED <<file, i, bone_count, dummy_count, bstring, ret, bones, dummies, out>>

\* _load_bones, line 50: bone_count = read_i32(f)
_load_bones ==
    /\ pc = "_load_bones"
    /\ LET r == read_i32(file, pos) IN
       /\ pos' = r.p
       /\ IF r.ok
          THEN /\ bone_count' = <<r.v>>
               /\ i' = 0
               /\ pc' = "_load_bones_loop"
               /\ UNCHANGED <<err, fopen>>
          ELSE Raise("struct.error") /\ UNCHANGED <<bone_count, i>>
    /\ UNCHANGED <<skeleton, skeleton_data, self, identifier, animVars, meshVars>>
    /\ UNCHANGED <<file, dummy_count, bstring, ret, format_code, bones, dummies, out>>

\* _load_bones, lines 51-53, up to the read_str call of BoneData.load_data.
_load_bones_loop ==
    /\ pc = "_load_bones_loop"
    /\ IF i < bone_count[1]
       THEN LET appended == Append(bones, BoneData)
                r == load_parent(file, pos, appended[i + 1])
            IN  /\ bones' = [appended EXCEPT ![i + 1] = r.b]
                /\ pos' = r.p
                /\ IF r.ok
                   THEN /\ bstring' = <<>>
                        /\ ret' = "bone"
                        /\ pc' = "read_str"
                        /\ UNCHANGED <<err, fopen>>
                   ELSE Raise("struct.error") /\ UNCHANGED <<bstring, ret>>
       ELSE /\ pc' = "_load_dummies"
            /\ UNCHANGED <<bones, pos, bstring, ret, err, fopen>>
    /\ UNCHANGED <<skeleton, skeleton_data, self, identifier, animVars, meshVars>>
    /\ UNCHANGED <<file, i, bone_count, dummy_count, format_code, dummies, out>>

\* read_str: one iteration of its loop.  At the end of the stream f.read(1)
\* returns b"", which is not the terminator and adds nothing to bstring.
read_str ==
    /\ pc = "read_str"
    /\ LET byte == f_read(file, pos, 1) IN
       IF byte = <<0>>
       THEN LET d == euc_kr_decode(bstring) IN
            /\ pos' = pos + 1
            /\ UNCHANGED bstring
            /\ IF ~d.ok
               THEN Raise("UnicodeDecodeError") /\ UNCHANGED <<bones, dummies, identifier>>
               ELSE /\ UNCHANGED <<err, fopen>>
                    /\ CASE ret = "bone" ->
                              /\ bones' = [bones EXCEPT ![i + 1].name = d.s]
                              /\ pc' = "bone_tail"
                              /\ UNCHANGED <<dummies, identifier>>
                         [] ret = "dummy" ->
                              /\ dummies' = [dummies EXCEPT ![i + 1].name = d.s]
                              /\ pc' = "dummy_tail"
                              /\ UNCHANGED <<bones, identifier>>
                         [] ret = "mesh" ->
                              /\ identifier' = d.s
                              /\ pc' = "load_version"
                              /\ UNCHANGED <<bones, dummies>>
       ELSE /\ bstring' = bstring \o byte
            /\ pos' = pos + Len(byte)
            /\ UNCHANGED <<pc, err, fopen, bones, dummies, identifier>>
    /\ UNCHANGED <<skeleton, skeleton_data, self, animVars, meshVars>>
    /\ UNCHANGED <<file, i, bone_count, dummy_count, ret, format_code, out>>

\* BoneData.load_data(f, False), lines 125-128, and the next iteration.
bone_tail ==
    /\ pc = "bone_tail"
    /\ LET r == load_position_rotation(file, pos, bones[i + 1], FALSE) IN
       /\ bones' = [bones EXCEPT ![i + 1] = r.b]
       /\ pos' = r.p
       /\ IF r.ok
          THEN i' = i + 1 /\ pc' = "_load_bones_loop" /\ UNCHANGED <<err, fopen>>
          ELSE Raise("struct.error") /\ UNCHANGED i
    /\ UNCHANGED <<skeleton, skeleton_data, self, identifier, animVars, meshVars>>
    /\ UNCHANGED <<file, bone_count, dummy_count, bstring, ret, format_code, dummies, out>>

\* Mutant of _load_dummies: no except clause, a failed read_i32 raises.
_load_dummies_no_except ==
    /\ pc = "_load_dummies"
    /\ LET r == read_i32(file, pos) IN
       /\ pos' = r.p
       /\ IF r.ok
          THEN /\ dummy_count' = <<r.v>>
               /\ i' = 0
               /\ pc' = "_load_dummies_loop"
               /\ UNCHANGED <<err, fopen>>
          ELSE /\ Raise("struct.error")
               /\ UNCHANGED <<dummy_count, i>>
    /\ UNCHANGED <<skeleton, skeleton_data, self, identifier, animVars, meshVars>>
    /\ UNCHANGED <<file, bone_count, bstring, ret, format_code, bones, dummies, out>>

\* _load_dummies, lines 56-60: any exception of read_i32 is caught and the
\* method returns.
_load_dummies ==
    /\ pc = "_load_dummies"
    /\ LET r == read_i32(file, pos) IN
       /\ pos' = r.p
       /\ IF r.ok
          THEN /\ dummy_count' = <<r.v>>
               /\ i' = 0
               /\ pc' = "_load_dummies_loop"
               /\ UNCHANGED <<err, fopen>>
          ELSE /\ Finish(bones, dummies, "loaded")
               /\ UNCHANGED <<dummy_count, i>>
    /\ UNCHANGED <<skeleton, skeleton_data, self, identifier, animVars, meshVars>>
    /\ UNCHANGED <<file, bone_count, bstring, ret, format_code, bones, dummies, out>>

\* _load_dummies, lines 61-63, up to the read_str call of BoneData.load_data.
_load_dummies_loop ==
    /\ pc = "_load_dummies_loop"
    /\ IF i < dummy_count[1]
       THEN /\ dummies' = Append(dummies, BoneData)
            /\ bstring' = <<>>
            /\ ret' = "dummy"
            /\ pc' = "read_str"
            /\ UNCHANGED <<err, fopen>>
       ELSE /\ Finish(bones, dummies, "loaded")
            /\ UNCHANGED <<dummies, bstring, ret>>
    /\ UNCHANGED <<skeleton, skeleton_data, self, identifier, animVars, meshVars>>
    /\ UNCHANGED <<file, pos, i, bone_count, dummy_count, format_code, bones, out>>

\* BoneData.load_data(f, True, format_code == 2), lines 121-128, and the
\* next iteration.
dummy_tail ==
    /\ pc = "dummy_tail"
    /\ LET p == load_parent(file, pos, dummies[i + 1])
           r == IF p.ok
                THEN load_position_rotation(file, p.p, p.b, format_code = 2)
                ELSE p
       IN
       /\ dummies' = [dummies EXCEPT ![i + 1] = r.b]
       /\ pos' = r.p
       /\ IF r.ok
          THEN i' = i + 1 /\ pc' = "_load_dummies_loop" /\ UNCHANGED <<err, fopen>>
          ELSE Raise("struct.error") /\ UNCHANGED i
    /\ UNCHANGED <<skeleton, skeleton_data, self, identifier, animVars, meshVars>>
    /\ UNCHANGED <<file, bone_count, dummy_count, bstring, ret, format_code, bones, out>>

(***************************************************************************)
(* utils.py: the write primitives.  Each returns [ok, bs]: whether the     *)
(* write succeeded and the bytes it wrote.                                 *)
(***************************************************************************)
write_i32(data) == [ok |-> TRUE, bs |-> pack_i32(data)]

write_f32(data) == [ok |-> TRUE, bs |-> pack_f32(data)]

write_vector3_f32(data) ==
    [ok |-> TRUE, bs |-> pack_f32(data[1]) \o pack_f32(data[2]) \o pack_f32(data[3])]

\* data.w, data.x, data.y, data.z
write_vector4_f32(data) ==
    [ok |-> TRUE,
     bs |-> pack_f32(data[1]) \o pack_f32(data[2]) \o pack_f32(data[3]) \o pack_f32(data[4])]

\* struct.pack("<{size}s", bs): cut to size bytes, or filled with zero bytes.
pack_s(bs, size) ==
    [k \in 1..size |-> IF k <= Len(bs) THEN bs[k] ELSE 0]

write_fstr(data, size) ==
    LET e == euc_kr_encode(data) IN
    [ok |-> e.ok, bs |-> IF e.ok THEN pack_s(e.bs, size) ELSE <<>>]

write_str(data) ==
    LET e == euc_kr_encode(data) IN
    [ok |-> e.ok, bs |-> IF e.ok THEN pack_s(e.bs \o <<0>>, Len(e.bs) + 1) ELSE <<>>]

RECURSIVE str_digits(_)
\* str(n) for n >= 0: its decimal digits as characters.
str_digits(n) ==
    IF n < 10 THEN <<48 + n>> ELSE str_digits(n \div 10) \o <<48 + (n % 10)>>

\* str(n)
str(n) == IF n < 0 THEN <<45>> \o str_digits(-n) ELSE str_digits(n)

\* Mutant of BoneData.save_data: the rotation is written whatever format_v_2 is.
BoneData_save_data_ungated(b, is_dummy, format_v_2) ==
    LET name == write_str(b.name)
        head == IF is_dummy
                THEN name.bs \o pack_i32(b.parent)
                ELSE pack_i32(b.parent) \o name.bs
        body == write_vector3_f32(b.position).bs \o write_vector4_f32(b.rotation).bs
    IN  IF name.ok
        THEN [ok |-> TRUE, bs |-> head \o body, err |-> "none"]
        ELSE [ok |-> FALSE,
              bs |-> IF is_dummy THEN <<>> ELSE pack_i32(b.parent),
              err |-> "UnicodeEncodeError"]

\* Mutant of BoneData.save_data: a dummy is written in the field order of a bone.
BoneData_save_data_bone_order(b, is_dummy, format_v_2) ==
    LET name == write_str(b.name)
        head == pack_i32(b.parent) \o name.bs
        body == write_vector3_f32(b.position).bs
                \o (IF format_v_2 THEN <<>> ELSE write_vector4_f32(b.rotation).bs)
    IN  IF name.ok
        THEN [ok |-> TRUE, bs |-> head \o body, err |-> "none"]
        ELSE [ok |-> FALSE, bs |-> pack_i32(b.parent), err |-> "UnicodeEncodeError"]

\* Mutant of BoneData.save_data: a name that cannot be encoded is written as
\* the empty name, the rest of the record follows, and then the call raises.
BoneData_save_data_whole_record(b, is_dummy, format_v_2) ==
    LET name == write_str(b.name)
        bs == IF name.ok THEN name.bs ELSE <<0>>
        head == IF is_dummy
                THEN bs \o pack_i32(b.parent)
                ELSE pack_i32(b.parent) \o bs
        body == write_vector3_f32(b.position).bs
                \o (IF format_v_2 THEN <<>> ELSE write_vector4_f32(b.rotation).bs)
    IN  [ok |-> name.ok, bs |-> head \o body,
         err |-> IF name.ok THEN "none" ELSE "UnicodeEncodeError"]

\* BoneData.save_data: [ok, bs, err], bs the bytes written before it returned
\* or raised.
BoneData_save_data(b, is_dummy, format_v_2) ==
    LET name == write_str(b.name)
        head == IF is_dummy
                THEN name.bs \o pack_i32(b.parent)
                ELSE pack_i32(b.parent) \o name.bs
        body == write_vector3_f32(b.position).bs
                \o (IF format_v_2 THEN <<>> ELSE write_vector4_f32(b.rotation).bs)
    IN  IF name.ok
        THEN [ok |-> TRUE, bs |-> head \o body, err |-> "none"]
        ELSE [ok |-> FALSE,
              bs |-> IF is_dummy THEN <<>> ELSE pack_i32(b.parent),
              err |-> "UnicodeEncodeError"]

(***************************************************************************)
(* rose_data.py: SkeletonData.save_data.                                   *)
(***************************************************************************)
ZMD000 == <<90, 77, 68, 48, 48, 48>>

\* open(filepath, 'wb'): the file is emptied.  The object was filled by
\* load_data or built with its fields given.
save_data ==
    /\ self = "SkeletonData"
    /\ pc \in {"loaded", "built"}
    /\ pc' = "_save_format_code"
    /\ fopen' = TRUE
    /\ out' = <<>>
    /\ UNCHANGED <<skeleton, skeleton_data, self, identifier, animVars, meshVars>>
    /\ UNCHANGED <<file, pos, err, i, bone_count, dummy_count, bstring, ret,
                   format_code, bones, dummies>>

_save_format_code ==
    /\ pc = "_save_format_code"
    /\ LET w == write_fstr(ZMD000 \o str(format_code), 7) IN
       /\ out' = out \o w.bs
       /\ IF w.ok
          THEN pc' = "_save_bones" /\ UNCHANGED <<err, fopen>>
          ELSE Raise("UnicodeEncodeError")
    /\ UNCHANGED <<skeleton, skeleton_data, self, identifier, animVars, meshVars>>
    /\ UNCHANGED <<file, pos, i, bone_count, dummy_count, bstring, ret,
                   format_code, bones, dummies>>

\* _save_bones, line 70
_save_bones ==
    /\ pc = "_save_bones"
    /\ out' = out \o write_i32(Len(bones)).bs
    /\ i' = 0
    /\ pc' = "_save_bones_loop"
    /\ UNCHANGED <<skeleton, skeleton_data, self, identifier, animVars, meshVars>>
    /\ UNCHANGED <<file, pos, fopen, err, bone_count, dummy_count, bstring, ret,
                   format_code, bones, dummies>>

\* _save_bones, lines 71-72: one bone.save_data(f, False)
_save_bones_loop ==
    /\ pc = "_save_bones_loop"
    /\ IF i < Len(bones)
       THEN LET w == BoneData_save_data(bones[i + 1], FALSE, FALSE) IN
            /\ out' = out \o w.bs
            /\ IF w.ok
               THEN i' = i + 1 /\ UNCHANGED <<pc, err, fopen>>
               ELSE Raise(w.err) /\ UNCHANGED i
       ELSE /\ pc' = "_save_dummies"
            /\ UNCHANGED <<out, i, err, fopen>>
    /\ UNCHANGED <<skeleton, skeleton_data, self, identifier, animVars, meshVars>>
    /\ UNCHANGED <<file, pos, bone_count, dummy_count, bstring, ret,
                   format_code, bones, dummies>>

\* _save_dummies, line 75
_save_dummies ==
    /\ pc = "_save_dummies"
    /\ out' = out \o write_i32(Len(dummies)).bs
    /\ i' = 0
    /\ pc' = "_save_dummies_loop"
    /\ UNCHANGED <<skeleton, skeleton_data, self, identifier, animVars, meshVars>>
    /\ UNCHANGED <<file, pos, fopen, err, bone_count, dummy_count, bstring, ret,
                   format_code, bones, dummies>>

\* _save_dummies, lines 76-77: one dummy.save_data(f, True, format_code == 2)
_save_dummies_loop ==
    /\ pc = "_save_dummies_loop"
    /\ IF i < Len(dummies)
       THEN LET w == BoneData_save_data(dummies[i + 1], TRUE, format_code = 2) IN
            /\ out' = out \o w.bs
            /\ IF w.ok
               THEN i' = i + 1 /\ UNCHANGED <<pc, err, fopen>>
               ELSE Raise(w.err) /\ UNCHANGED i
       ELSE /\ Finish(bones, dummies, "saved")
            /\ UNCHANGED <<out, i>>
    /\ UNCHANGED <<skeleton, skeleton_data, self, identifier, animVars, meshVars>>
    /\ UNCHANGED <<file, pos, bone_count, dummy_count, bstring, ret,
                   format_code, bones, dummies>>

(***************************************************************************)
(* The skeleton files the model reads.  A file is built from a version, a  *)
(* number of bones and of dummies and a variant that fixes the field       *)
(* values; every prefix of a file is a stream too.                         *)
(***************************************************************************)
InVariants == {"plain", "values", "hangul", "badparent", "negparent", "badname"}

InName(var, letter, k) ==
    CASE var = "plain" -> <<>>
      [] var = "hangul" -> <<LeadByte, TrailByte, 48 + k>>
      [] var = "badname" -> <<255>>
      [] OTHER -> <<letter, 48 + k>>

\* The parent of bone k (1-based) of n: bone 0 is its own parent, the others
\* form a chain.
InBoneParent(var, k, n) ==
    CASE var = "badparent" /\ k = n -> n
      [] var = "negparent" /\ k = n -> -1
      [] OTHER -> IF k = 1 THEN 0 ELSE k - 2

InDummyParent(var, k, n) ==
    CASE var = "badparent" -> n
      [] var = "negparent" -> -1
      [] OTHER -> k - 1

\* File units: a multiple of 100, a fraction of 100 and a negative value.
InPosition(var, k) ==
    IF var = "plain" THEN Zero3 ELSE <<Fl(100 * k), Fl(50), Fl(-3)>>

InRotation(var, k) ==
    IF var = "plain" THEN Identity ELSE <<Fl(0), Fl(k), Fl(1), Fl(0)>>

InVec(v) ==
    IF v = <<>> THEN <<>>
    ELSE pack_f32(v[1]) \o pack_f32(v[2]) \o pack_f32(v[3])
         \o (IF Len(v) = 4 THEN pack_f32(v[4]) ELSE <<>>)

\* A bone record: parent, name, terminator, position, rotation (when rot).
InBoneRecord(var, k, n, rot) ==
    pack_i32(InBoneParent(var, k, n)) \o InName(var, 98, k) \o <<0>>
    \o InVec(InPosition(var, k)) \o (IF rot THEN InVec(InRotation(var, k)) ELSE <<>>)

\* A dummy record: name, terminator, parent, position, rotation (when rot).
InDummyRecord(var, k, n, rot) ==
    InName(var, 112, k) \o <<0>> \o pack_i32(InDummyParent(var, k, n))
    \o InVec(InPosition(var, k + 4)) \o (IF rot THEN InVec(InRotation(var, k + 4)) ELSE <<>>)

RECURSIVE InBones(_, _, _, _)
InBones(var, k, n, rot) ==
    IF k > n THEN <<>> ELSE InBoneRecord(var, k, n, rot) \o InBones(var, k + 1, n, rot)

RECURSIVE InDummies(_, _, _, _, _)
InDummies(var, k, nd, n, rot) ==
    IF k > nd THEN <<>>
    ELSE InDummyRecord(var, k, n, rot) \o InDummies(var, k + 1, nd, n, rot)

\* bonerot: whether bone records hold a rotation; dummyrot: whether dummy
\* records do.
InSkeletonFile(header, var, nb, nd, bonerot, dummyrot) ==
    header \o pack_i32(nb) \o InBones(var, 1, nb, bonerot)
    \o pack_i32(nd) \o InDummies(var, 1, nd, nb, dummyrot)

ZMD0004 == <<90, 77, 68, 48, 48, 48, 52>>

InSkeletonFiles ==
    { InSkeletonFile(ZMD0003, var, nb, nd, TRUE, TRUE) :
        var \in InVariants, nb \in 0..MaxBones, nd \in 0..MaxDummies }
    \cup
    { InSkeletonFile(ZMD0002, l[1], l[2], l[3], l[4], FALSE) :
        l \in InVariants \X (0..MaxBones) \X (0..MaxDummies) \X BOOLEAN }
    \cup
    { InSkeletonFile(h, "values", 1, 1, TRUE, TRUE) :
        h \in {ZMD0004, <<255, 255, 255, 255, 255, 255, 255>>} }

InSkeletonStreams ==
    UNION { { Take(f, n) : n \in 0..Len(f) } : f \in InSkeletonFiles }

(***************************************************************************)
(* The skeleton codec: one SkeletonData() loads a stream and may then save *)
(* what it holds.                                                          *)
(***************************************************************************)
\* The state before a call: the object as its constructor leaves it, no
\* local bound, no file open.
Constructed(class) ==
    /\ self = class
    /\ pc = class
    /\ pos = 0
    /\ fopen = FALSE
    /\ err = "none"
    /\ i = 0
    /\ j = 0
    /\ bone_count = <<>>
    /\ dummy_count = <<>>
    /\ bstring = <<>>
    /\ ret = "none"
    /\ format_code = 0
    /\ bones = <<>>
    /\ dummies = <<>>
    /\ out = <<>>
    /\ fps = 0
    /\ frame_count = 0
    /\ channel_count = <<>>
    /\ channels = <<>>
    /\ alpha = <<>>
    /\ identifier = <<>>
    /\ format = -1
    /\ bounding_box = <<Zero3, Zero3>>
    /\ vertices = <<>>
    /\ indices = <<>>
    /\ materials = <<>>
    /\ strips = <<>>
    /\ pool = 0
    /\ version = <<>>
    /\ vert_count = 0
    /\ skeleton_data = <<>>
    /\ skeleton = <<>>

InitSkeleton ==
    /\ file \in InSkeletonStreams
    /\ Constructed("SkeletonData")

NextSkeleton ==
    \/ load_data
    \/ _load_format_code
    \/ _load_bones
    \/ _load_bones_loop
    \/ read_str
    \/ bone_tail
    \/ _load_dummies
    \/ _load_dummies_loop
    \/ dummy_tail
    \/ save_data
    \/ _save_format_code
    \/ _save_bones
    \/ _save_bones_loop
    \/ _save_dummies
    \/ _save_dummies_loop

SpecSkeleton == InitSkeleton /\ [][NextSkeleton]_vars

(***************************************************************************)
(* rose_data.py: TrackType, ChannelData, AnimationData.load_data.          *)
(***************************************************************************)
TrackType_POSITION == 2
TrackType_ROTATION == 4
TrackType_NORMAL == 8
TrackType_ALPHA == 16
TrackType_UV1 == 32
TrackType_UV2 == 64
TrackType_UV3 == 128
TrackType_UV4 == 256
TrackType_TEXTUREANIM == 512
TrackType_SCALE == 1024

\* (bit & mask) != 0, bit a power of two
BitSet(bit, mask) == (mask \div bit) % 2 = 1

\* ChannelData(tracktype, track_id)
ChannelData(tracktype, track_id) ==
    [identifier |-> track_id, type |-> tracktype,
     position |-> <<>>, rotation |-> <<>>, normal |-> <<>>, alpha |-> <<>>,
     uv_1 |-> <<>>, uv_2 |-> <<>>, uv_3 |-> <<>>, uv_4 |-> <<>>,
     texture_animation |-> <<>>, scale |-> <<>>]

positions_enabled(ch) == BitSet(TrackType_POSITION, ch.type)
rotations_enabled(ch) == BitSet(TrackType_ROTATION, ch.type)
normals_enabled(ch) == BitSet(TrackType_NORMAL, ch.type)
alpha_enabled(ch) == BitSet(TrackType_ALPHA, ch.type)
uv1_enabled(ch) == BitSet(TrackType_UV1, ch.type)
uv2_enabled(ch) == BitSet(TrackType_UV2, ch.type)
uv3_enabled(ch) == BitSet(TrackType_UV3, ch.type)
uv4_enabled(ch) == BitSet(TrackType_UV4, ch.type)
textureanim_enabled(ch) == BitSet(TrackType_TEXTUREANIM, ch.type)
scale_enabled(ch) == BitSet(TrackType_SCALE, ch.type)

\* n consecutive read_f32(f): [ok, v, p], v the n floats in stream order.
read_floats(f, p, n) ==
    IF p + 4 * n <= Len(f)
    THEN [ok |-> TRUE,
          v |-> [k \in 1..n |-> unpack_f32(SubSeq(f, p + 4 * k - 3, p + 4 * k))],
          p |-> p + 4 * n]
    ELSE [ok |-> FALSE, v |-> <<>>, p |-> Len(f)]

\* The state of one pass through the body of the inner loop of
\* _load_channel_data: [ok, err, p, ch, alpha].
Failed(st, r, kind) == [st EXCEPT !.ok = FALSE, !.err = kind, !.p = r.p]

\* Mutant of channel_position_rotation: "if" in place of "elif", the rotation
\* is read after the position.
channel_position_and_rotation(f, st) ==
    LET s1 == IF positions_enabled(st.ch)
              THEN LET r == read_floats(f, st.p, 3) IN
                   IF ~r.ok THEN Failed(st, r, "struct.error")
                   ELSE [st EXCEPT !.p = r.p,
                                   !.ch.position = Append(@, Div100Vec(r.v))]
              ELSE st
    IN  IF s1.ok /\ rotations_enabled(s1.ch)
        THEN LET r == read_floats(f, s1.p, 4) IN
             IF ~r.ok THEN Failed(s1, r, "struct.error")
             ELSE [s1 EXCEPT !.p = r.p, !.ch.rotation = Append(@, r.v)]
        ELSE s1

\* Lines 169-179: the position, or else the rotation.
channel_position_rotation(f, st) ==
    IF positions_enabled(st.ch)
    THEN LET r == read_floats(f, st.p, 3) IN
         IF ~r.ok THEN Failed(st, r, "struct.error")
         ELSE [st EXCEPT !.p = r.p,
                         !.ch.position = Append(@, Div100Vec(r.v))]
    ELSE IF rotations_enabled(st.ch)
    THEN LET r == read_floats(f, st.p, 4) IN
         IF ~r.ok THEN Failed(st, r, "struct.error")
         ELSE [st EXCEPT !.p = r.p, !.ch.rotation = Append(@, r.v)]
    ELSE st

\* Lines 180-184
channel_normal(f, st) ==
    IF st.ok /\ normals_enabled(st.ch)
    THEN LET r == read_floats(f, st.p, 3) IN
         IF ~r.ok THEN Failed(st, r, "struct.error")
         ELSE [st EXCEPT !.p = r.p, !.ch.normal = Append(@, r.v)]
    ELSE st

\* Lines 185-187: the local alpha is bound here and only here.
channel_alpha(f, st) ==
    IF st.ok /\ alpha_enabled(st.ch)
    THEN LET r == read_floats(f, st.p, 1) IN
         IF ~r.ok THEN Failed(st, r, "struct.error")
         ELSE [st EXCEPT !.p = r.p, !.alpha = <<r.v[1]>>,
                         !.ch.alpha = Append(@, r.v[1])]
    ELSE st

\* Lines 188-203: the four uv pairs.
channel_uv(f, st) ==
    LET s1 == IF st.ok /\ uv1_enabled(st.ch)
              THEN LET r == read_floats(f, st.p, 2) IN
                   IF ~r.ok THEN Failed(st, r, "struct.error")
                   ELSE [st EXCEPT !.p = r.p, !.ch.uv_1 = Append(@, r.v)]
              ELSE st
        s2 == IF s1.ok /\ uv2_enabled(s1.ch)
              THEN LET r == read_floats(f, s1.p, 2) IN
                   IF ~r.ok THEN Failed(s1, r, "struct.error")
                   ELSE [s1 EXCEPT !.p = r.p, !.ch.uv_2 = Append(@, r.v)]
              ELSE s1
        s3 == IF s2.ok /\ uv3_enabled(s2.ch)
              THEN LET r == read_floats(f, s2.p, 2) IN
                   IF ~r.ok THEN Failed(s2, r, "struct.error")
                   ELSE [s2 EXCEPT !.p = r.p, !.ch.uv_3 = Append(@, r.v)]
              ELSE s2
    IN  IF s3.ok /\ uv4_enabled(s3.ch)
        THEN LET r == read_floats(f, s3.p, 2) IN
             IF ~r.ok THEN Failed(s3, r, "struct.error")
             ELSE [s3 EXCEPT !.p = r.p, !.ch.uv_4 = Append(@, r.v)]
        ELSE s3

\* Lines 204-206: texture_anim is read, and the local alpha is appended;
\* reading an unbound local raises UnboundLocalError.
channel_textureanim(f, st) ==
    IF st.ok /\ textureanim_enabled(st.ch)
    THEN LET r == read_floats(f, st.p, 1) IN
         IF ~r.ok THEN Failed(st, r, "struct.error")
         ELSE IF st.alpha = <<>> THEN Failed(st, r, "UnboundLocalError")
         ELSE [st EXCEPT !.p = r.p,
                         !.ch.texture_animation = Append(@, st.alpha[1])]
    ELSE st

\* Lines 207-209: scale is read, and the local alpha is appended.
channel_scale(f, st) ==
    IF st.ok /\ scale_enabled(st.ch)
    THEN LET r == read_floats(f, st.p, 1) IN
         IF ~r.ok THEN Failed(st, r, "struct.error")
         ELSE IF st.alpha = <<>> THEN Failed(st, r, "UnboundLocalError")
         ELSE [st EXCEPT !.p = r.p, !.ch.scale = Append(@, st.alpha[1])]
    ELSE st

\* Lines 169-209: the body of the inner loop for one channel and one frame.
channel_frame(f, p, ch, a) ==
    channel_scale(f,
      channel_textureanim(f,
        channel_uv(f,
          channel_alpha(f,
            channel_normal(f,
              channel_position_rotation(f,
                [ok |-> TRUE, err |-> "none", p |-> p, ch |-> ch, alpha |-> a]))))))

animation_load_data ==
    /\ pc = "AnimationData"
    /\ pc' = "_load_settings"
    /\ fopen' = TRUE
    /\ pos' = 0
    /\ UNCHANGED <<skeleton, skeleton_data, self, identifier, animVars, meshVars>>
    /\ UNCHANGED <<file, err, i, bone_count, dummy_count, bstring, ret,
                   format_code, bones, dummies, out>>

\* _load_settings: the version token, fps and frame_count.
_load_settings ==
    /\ pc = "_load_settings"
    /\ LET t == read_fstr(file, pos, 8)
           a == read_i32(file, t.p)
           b == read_i32(file, a.p)
       IN  IF ~t.ok
           THEN /\ Raise("UnicodeDecodeError")
                /\ pos' = t.p
                /\ UNCHANGED <<format_code, fps, frame_count>>
           ELSE /\ format_code' = t.v
                /\ IF ~a.ok
                   THEN /\ Raise("struct.error")
                        /\ pos' = a.p
                        /\ UNCHANGED <<fps, frame_count>>
                   ELSE /\ fps' = a.v
                        /\ pos' = b.p
                        /\ IF ~b.ok
                           THEN Raise("struct.error") /\ UNCHANGED frame_count
                           ELSE /\ frame_count' = b.v
                                /\ pc' = "_setup_channels"
                                /\ UNCHANGED <<err, fopen>>
    /\ UNCHANGED <<skeleton, skeleton_data, self, identifier, meshVars, j, channel_count, channels, alpha>>
    /\ UNCHANGED <<file, i, bone_count, dummy_count, bstring, ret, bones, dummies, out>>

\* _setup_channels, line 160
_setup_channels ==
    /\ pc = "_setup_channels"
    /\ LET r == read_i32(file, pos) IN
       /\ pos' = r.p
       /\ IF r.ok
          THEN /\ channel_count' = <<r.v>>
               /\ i' = 0
               /\ pc' = "_setup_channels_loop"
               /\ UNCHANGED <<err, fopen>>
          ELSE Raise("struct.error") /\ UNCHANGED <<channel_count, i>>
    /\ UNCHANGED <<skeleton, skeleton_data, self, identifier, meshVars, j, fps, frame_count, channels, alpha>>
    /\ UNCHANGED <<file, bone_count, dummy_count, bstring, ret, format_code,
                   bones, dummies, out>>

\* _setup_channels, lines 161-164: one descriptor; after the last, the first
\* frame of _load_channel_data.
_setup_channels_loop ==
    /\ pc = "_setup_channels_loop"
    /\ IF i < channel_count[1]
       THEN LET t == read_i32(file, pos)
                k == read_i32(file, t.p)
            IN  IF t.ok /\ k.ok
                THEN /\ channels' = Append(channels, ChannelData(t.v, k.v))
                     /\ pos' = k.p
                     /\ i' = i + 1
                     /\ UNCHANGED <<pc, err, fopen, j>>
                ELSE /\ Raise("struct.error")
                     /\ pos' = Len(file)
                     /\ UNCHANGED <<channels, i, j>>
       ELSE /\ pc' = "_load_channel_data"
            /\ i' = 0
            /\ j' = 0
            /\ UNCHANGED <<channels, pos, err, fopen>>
    /\ UNCHANGED <<skeleton, skeleton_data, self, identifier, meshVars, fps, frame_count, channel_count, alpha>>
    /\ UNCHANGED <<file, bone_count, dummy_count, bstring, ret, format_code,
                   bones, dummies, out>>

\* _load_channel_data: channel j of frame i, or the end of the loops and of
\* load_data.
_load_channel_data ==
    /\ pc = "_load_channel_data"
    /\ IF i < frame_count /\ Len(channels) > 0
       THEN LET st == channel_frame(file, pos, channels[j + 1], alpha) IN
            /\ channels' = [channels EXCEPT ![j + 1] = st.ch]
            /\ alpha' = st.alpha
            /\ pos' = st.p
            /\ IF st.ok
               THEN /\ IF j + 1 < Len(channels)
                       THEN j' = j + 1 /\ UNCHANGED i
                       ELSE j' = 0 /\ i' = i + 1
                    /\ UNCHANGED <<pc, err, fopen>>
               ELSE Raise(st.err) /\ UNCHANGED <<i, j>>
       ELSE /\ pc' = "loaded"
            /\ fopen' = FALSE
            /\ UNCHANGED <<channels, alpha, pos, i, j, err>>
    /\ UNCHANGED <<skeleton, skeleton_data, self, identifier, meshVars, fps, frame_count, channel_count>>
    /\ UNCHANGED <<file, bone_count, dummy_count, bstring, ret, format_code,
                   bones, dummies, out>>

(***************************************************************************)
(* The animation files the model reads: a token, fps, frame_count, the     *)
(* channel descriptors and the payload, whose n-th float32 is the number   *)
(* n.                                                                      *)
(***************************************************************************)
MaxFrames == 2
MaxChannels == 2

ZMO0002 == <<90, 77, 79, 48, 48, 48, 50, 0>>

\* The float32 fields one frame of a channel of this type takes.
InChannelFloats(type) ==
    (IF BitSet(TrackType_POSITION, type) THEN 3
     ELSE IF BitSet(TrackType_ROTATION, type) THEN 4 ELSE 0)
    + (IF BitSet(TrackType_NORMAL, type) THEN 3 ELSE 0)
    + (IF BitSet(TrackType_ALPHA, type) THEN 1 ELSE 0)
    + (IF BitSet(TrackType_UV1, type) THEN 2 ELSE 0)
    + (IF BitSet(TrackType_UV2, type) THEN 2 ELSE 0)
    + (IF BitSet(TrackType_UV3, type) THEN 2 ELSE 0)
    + (IF BitSet(TrackType_UV4, type) THEN 2 ELSE 0)
    + (IF BitSet(TrackType_TEXTUREANIM, type) THEN 1 ELSE 0)
    + (IF BitSet(TrackType_SCALE, type) THEN 1 ELSE 0)

RECURSIVE InFrameFloats(_)
InFrameFloats(types) ==
    IF types = <<>> THEN 0 ELSE InChannelFloats(types[1]) + InFrameFloats(Tail(types))

RECURSIVE InFloats(_, _)
\* The floats numbered from..to, packed.
InFloats(from, to) ==
    IF from > to THEN <<>> ELSE pack_f32(Fl(from)) \o InFloats(from + 1, to)

RECURSIVE InDescriptors(_, _)
InDescriptors(types, k) ==
    IF types = <<>> THEN <<>>
    ELSE pack_i32(types[1]) \o pack_i32(k) \o InDescriptors(Tail(types), k + 1)

InAnimationFile(frames, types) ==
    ZMO0002 \o pack_i32(30) \o pack_i32(frames) \o pack_i32(Len(types))
    \o InDescriptors(types, 0) \o InFloats(1, frames * InFrameFloats(types))

\* Every combination of the ten track type bits.
InAllTrackTypes == { 2 * k : k \in 0..1023 }

\* The track types of the files of several channels.
InTrackTypes ==
    { TrackType_POSITION, TrackType_ROTATION,
      TrackType_POSITION + TrackType_ROTATION,
      TrackType_ALPHA + TrackType_NORMAL,
      TrackType_TEXTUREANIM + TrackType_UV2,
      TrackType_ALPHA + TrackType_TEXTUREANIM + TrackType_SCALE }

InChannelLists ==
    UNION { [1..n -> InTrackTypes] : n \in 0..MaxChannels }

InAnimationFiles ==
    { InAnimationFile(frames, <<t>>) : frames \in 0..MaxFrames, t \in InAllTrackTypes }
    \cup
    { InAnimationFile(frames, types) : frames \in 0..MaxFrames, types \in InChannelLists }

\* The prefixes of the files of one frame and one channel.
InAnimationCuts ==
    UNION { { Take(InAnimationFile(1, <<t>>), n) :
                n \in 0..Len(InAnimationFile(1, <<t>>)) } : t \in InTrackTypes }

InAnimationStreams == InAnimationFiles \cup InAnimationCuts

InitAnimation ==
    /\ file \in InAnimationStreams
    /\ Constructed("AnimationData")

NextAnimation ==
    \/ animation_load_data
    \/ _load_settings
    \/ _setup_channels
    \/ _setup_channels_loop
    \/ _load_channel_data

SpecAnimation == InitAnimation /\ [][NextAnimation]_vars

(***************************************************************************)
(* zms_import.py: VertexFormat, Vertex, MeshImportData.load.               *)
(***************************************************************************)
VertexFormat_POSITION == 2
VertexFormat_NORMAL == 4
VertexFormat_COLOR == 8
VertexFormat_BONEWEIGHT == 16
VertexFormat_BONEINDEX == 32
VertexFormat_TANGENT == 64
VertexFormat_UV1 == 128
VertexFormat_UV2 == 256
VertexFormat_UV3 == 512
VertexFormat_UV4 == 1024

Zero4 == <<Fl(0), Fl(0), Fl(0), Fl(0)>>

\* None
None == <<>>

\* Vertex()
Vertex ==
    [position |-> Zero3, normal |-> Zero3, color |-> Zero3,
     bone_weights |-> Zero4, bone_indices |-> Zero4, tangent |-> Zero3,
     uv_layers |-> <<None, None, None, None>>]

mesh_positions_enabled(fmt) == BitSet(VertexFormat_POSITION, fmt)
mesh_normals_enabled(fmt) == BitSet(VertexFormat_NORMAL, fmt)
colors_enabled(fmt) == BitSet(VertexFormat_COLOR, fmt)

\* Mutant of bones_enabled: "or" in place of "and".
bones_enabled_either(fmt) ==
    BitSet(VertexFormat_BONEWEIGHT, fmt) \/ BitSet(VertexFormat_BONEINDEX, fmt)

bones_enabled(fmt) ==
    BitSet(VertexFormat_BONEWEIGHT, fmt) /\ BitSet(VertexFormat_BONEINDEX, fmt)

tangents_enabled(fmt) == BitSet(VertexFormat_TANGENT, fmt)
mesh_uv1_enabled(fmt) == BitSet(VertexFormat_UV1, fmt)
mesh_uv2_enabled(fmt) == BitSet(VertexFormat_UV2, fmt)
mesh_uv3_enabled(fmt) == BitSet(VertexFormat_UV3, fmt)
mesh_uv4_enabled(fmt) == BitSet(VertexFormat_UV4, fmt)

\* The nine passes of load, lines 122-156, in their order: whether pass k runs.
pass_enabled(k, fmt) ==
    CASE k = 1 -> mesh_positions_enabled(fmt)
      [] k = 2 -> mesh_normals_enabled(fmt)
      [] k = 3 -> colors_enabled(fmt)
      [] k = 4 -> bones_enabled(fmt)
      [] k = 5 -> tangents_enabled(fmt)
      [] k = 6 -> mesh_uv1_enabled(fmt)
      [] k = 7 -> mesh_uv2_enabled(fmt)
      [] k = 8 -> mesh_uv3_enabled(fmt)
      [] k = 9 -> mesh_uv4_enabled(fmt)

\* read_vector2_f32
read_vector2_f32(f, p) == read_floats(f, p, 2)

\* read_color: (Color((r, g, b)), a)
read_color(f, p) ==
    LET r == read_floats(f, p, 4) IN
    [ok |-> r.ok, v |-> IF r.ok THEN << <<r.v[1], r.v[2], r.v[3]>>, r.v[4] >> ELSE <<>>,
     p |-> r.p]

\* read_vector4_i16: a Vector of x, y, z, w, which holds floats.
read_vector4_i16(f, p) ==
    LET x == read_i16(f, p)
        y == read_i16(f, p + 2)
        z == read_i16(f, p + 4)
        w == read_i16(f, p + 6)
    IN  IF x.ok /\ y.ok /\ z.ok /\ w.ok
        THEN [ok |-> TRUE, v |-> <<Fl(x.v), Fl(y.v), Fl(z.v), Fl(w.v)>>, p |-> p + 8]
        ELSE [ok |-> FALSE, v |-> <<>>, p |-> Len(f)]

\* read_vector3_i16
read_vector3_i16(f, p) ==
    LET x == read_i16(f, p)
        y == read_i16(f, p + 2)
        z == read_i16(f, p + 4)
    IN  IF x.ok /\ y.ok /\ z.ok
        THEN [ok |-> TRUE, v |-> <<Fl(x.v), Fl(y.v), Fl(z.v)>>, p |-> p + 6]
        ELSE [ok |-> FALSE, v |-> <<>>, p |-> Len(f)]

\* The body of the loop of pass k for one vertex: [ok, vtx, p].
load_vertex_attribute(f, p, vtx, k) ==
    CASE k = 1 ->
           LET r == read_vector3_f32(f, p) IN
           [ok |-> r.ok, vtx |-> IF r.ok THEN [vtx EXCEPT !.position = r.v] ELSE vtx, p |-> r.p]
      [] k = 2 ->
           LET r == read_vector3_f32(f, p) IN
           [ok |-> r.ok, vtx |-> IF r.ok THEN [vtx EXCEPT !.normal = r.v] ELSE vtx, p |-> r.p]
      [] k = 3 ->
           LET r == read_color(f, p) IN
           [ok |-> r.ok, vtx |-> IF r.ok THEN [vtx EXCEPT !.color = r.v] ELSE vtx, p |-> r.p]
      [] k = 4 ->
           LET w == read_vector4_f32(f, p)
               x == read_vector4_i16(f, w.p)
           IN  IF ~w.ok THEN [ok |-> FALSE, vtx |-> vtx, p |-> w.p]
               ELSE IF ~x.ok
               THEN [ok |-> FALSE, vtx |-> [vtx EXCEPT !.bone_weights = w.v], p |-> x.p]
               ELSE [ok |-> TRUE,
                     vtx |-> [vtx EXCEPT !.bone_weights = w.v, !.bone_indices = x.v],
                     p |-> x.p]
      [] k = 5 ->
           LET r == read_vector3_f32(f, p) IN
           [ok |-> r.ok, vtx |-> IF r.ok THEN [vtx EXCEPT !.tangent = r.v] ELSE vtx, p |-> r.p]
      [] k \in 6..9 ->
           LET r == read_vector2_f32(f, p) IN
           [ok |-> r.ok,
            vtx |-> IF r.ok THEN [vtx EXCEPT !.uv_layers[k - 5] = r.v] ELSE vtx,
            p |-> r.p]

RECURSIVE load_pass_from_reversed(_, _, _, _, _, _)
\* Mutant of the loop of a pass: the value read in iteration idx is stored in
\* vertex n - 1 - idx.
load_pass_from_reversed(f, p, vs, k, idx, n) ==
    IF idx >= n THEN [ok |-> TRUE, vs |-> vs, p |-> p]
    ELSE LET r == load_vertex_attribute(f, p, vs[n - idx], k)
             vs1 == [vs EXCEPT ![n - idx] = r.vtx]
         IN  IF r.ok THEN load_pass_from_reversed(f, r.p, vs1, k, idx + 1, n)
             ELSE [ok |-> FALSE, vs |-> vs1, p |-> r.p]

RECURSIVE load_pass_from(_, _, _, _, _, _)
\* for i in range(vert_count): the iterations from idx on, [ok, vs, p].
load_pass_from(f, p, vs, k, idx, n) ==
    IF idx >= n THEN [ok |-> TRUE, vs |-> vs, p |-> p]
    ELSE LET r == load_vertex_attribute(f, p, vs[idx + 1], k)
             vs1 == [vs EXCEPT ![idx + 1] = r.vtx]
         IN  IF r.ok THEN load_pass_from(f, r.p, vs1, k, idx + 1, n)
             ELSE [ok |-> FALSE, vs |-> vs1, p |-> r.p]

RECURSIVE read_i16_table(_, _, _)
\* for _ in range(n): list.append(read_i16(f)): [ok, v, p], v what was appended.
read_i16_table(f, p, n) ==
    IF n <= 0 THEN [ok |-> TRUE, v |-> <<>>, p |-> p]
    ELSE LET r == read_i16(f, p) IN
         IF ~r.ok THEN [ok |-> FALSE, v |-> <<>>, p |-> r.p]
         ELSE LET t == read_i16_table(f, r.p, n - 1) IN
              [ok |-> t.ok, v |-> <<r.v>> \o t.v, p |-> t.p]

RECURSIVE read_vector3_i16_table(_, _, _)
\* for _ in range(n): list.append(read_vector3_i16(f))
read_vector3_i16_table(f, p, n) ==
    IF n <= 0 THEN [ok |-> TRUE, v |-> <<>>, p |-> p]
    ELSE LET r == read_vector3_i16(f, p) IN
         IF ~r.ok THEN [ok |-> FALSE, v |-> <<>>, p |-> r.p]
         ELSE LET t == read_vector3_i16_table(f, r.p, n - 1) IN
              [ok |-> t.ok, v |-> <<r.v>> \o t.v, p |-> t.p]

RECURSIVE Repeat(_, _)
Repeat(x, n) == IF n <= 0 THEN <<>> ELSE <<x>> \o Repeat(x, n - 1)

ZMS0007 == <<90, 77, 83, 48, 48, 48, 55>>
ZMS0008 == <<90, 77, 83, 48, 48, 48, 56>>

\* load, lines 98-99, up to the loop of read_str.
load ==
    /\ pc = "MeshImportData"
    /\ fopen' = TRUE
    /\ pos' = 0
    /\ bstring' = <<>>
    /\ ret' = "mesh"
    /\ pc' = "read_str"
    /\ UNCHANGED <<skeleton, skeleton_data, self, identifier, animVars, meshVars>>
    /\ UNCHANGED <<file, err, i, bone_count, dummy_count, format_code, bones, dummies, out>>

\* load, lines 101-108
load_version ==
    /\ pc = "load_version"
    /\ IF identifier = ZMS0007
       THEN version' = <<7>> /\ pc' = "load_format" /\ UNCHANGED <<err, fopen>>
       ELSE IF identifier = ZMS0008
       THEN version' = <<8>> /\ pc' = "load_format" /\ UNCHANGED <<err, fopen>>
       ELSE Raise("RoseParseError") /\ UNCHANGED version
    /\ UNCHANGED <<skeleton, skeleton_data, self, identifier, animVars, format, bounding_box, vertices, indices,
                   materials, strips, pool, vert_count>>
    /\ UNCHANGED <<file, pos, i, bone_count, dummy_count, bstring, ret, format_code,
                   bones, dummies, out>>

\* load, lines 110-112: the format and the bounding box.
load_format ==
    /\ pc = "load_format"
    /\ LET a == read_i32(file, pos)
           b == read_vector3_f32(file, a.p)
           c == read_vector3_f32(file, b.p)
       IN  IF ~a.ok
           THEN Raise("struct.error") /\ pos' = a.p /\ UNCHANGED <<format, bounding_box>>
           ELSE /\ format' = a.v
                /\ IF ~b.ok
                   THEN Raise("struct.error") /\ pos' = b.p /\ UNCHANGED bounding_box
                   ELSE IF ~c.ok
                   THEN /\ Raise("struct.error")
                        /\ pos' = c.p
                        /\ bounding_box' = <<b.v, bounding_box[2]>>
                   ELSE /\ bounding_box' = <<b.v, c.v>>
                        /\ pos' = c.p
                        /\ pc' = "load_bones"
                        /\ UNCHANGED <<err, fopen>>
    /\ UNCHANGED <<skeleton, skeleton_data, self, identifier, animVars, vertices, indices, materials, strips,
                   pool, version, vert_count>>
    /\ UNCHANGED <<file, i, bone_count, dummy_count, bstring, ret, format_code,
                   bones, dummies, out>>

\* load, lines 114-116: the bone table.
load_bones ==
    /\ pc = "load_bones"
    /\ LET n == read_i16(file, pos)
           t == read_i16_table(file, n.p, n.v)
       IN  IF ~n.ok
           THEN Raise("struct.error") /\ pos' = n.p /\ UNCHANGED <<bone_count, bones>>
           ELSE /\ bone_count' = <<n.v>>
                /\ bones' = bones \o t.v
                /\ pos' = t.p
                /\ IF t.ok
                   THEN pc' = "load_vertices" /\ UNCHANGED <<err, fopen>>
                   ELSE Raise("struct.error")
    /\ UNCHANGED <<skeleton, skeleton_data, self, identifier, animVars, meshVars>>
    /\ UNCHANGED <<file, i, dummy_count, bstring, ret, format_code, dummies, out>>

\* load, lines 118-120: vert_count new vertices.
load_vertices ==
    /\ pc = "load_vertices"
    /\ LET n == read_i16(file, pos) IN
       /\ pos' = n.p
       /\ IF ~n.ok
          THEN Raise("struct.error") /\ UNCHANGED <<vert_count, vertices, i>>
          ELSE /\ vert_count' = n.v
               /\ vertices' = vertices \o Repeat(Vertex, n.v)
               /\ i' = 1
               /\ pc' = "load_pass"
               /\ UNCHANGED <<err, fopen>>
    /\ UNCHANGED <<skeleton, skeleton_data, self, identifier, animVars, format, bounding_box, indices, materials,
                   strips, pool, version>>
    /\ UNCHANGED <<file, bone_count, dummy_count, bstring, ret, format_code,
                   bones, dummies, out>>

\* load, lines 122-156: pass i of the nine, over all vertices if it is enabled.
load_pass ==
    /\ pc = "load_pass"
    /\ LET r == IF pass_enabled(i, format)
                THEN load_pass_from(file, pos, vertices, i, 0, vert_count)
                ELSE [ok |-> TRUE, vs |-> vertices, p |-> pos]
       IN  /\ vertices' = r.vs
           /\ pos' = r.p
           /\ IF r.ok
              THEN /\ i' = i + 1
                   /\ pc' = IF i = 9 THEN "load_indices" ELSE "load_pass"
                   /\ UNCHANGED <<err, fopen>>
              ELSE Raise("struct.error") /\ UNCHANGED i
    /\ UNCHANGED <<skeleton, skeleton_data, self, identifier, animVars, format, bounding_box, indices, materials,
                   strips, pool, version, vert_count>>
    /\ UNCHANGED <<file, bone_count, dummy_count, bstring, ret, format_code,
                   bones, dummies, out>>

\* load, lines 158-160: the triangles.
load_indices ==
    /\ pc = "load_indices"
    /\ LET n == read_i16(file, pos)
           t == read_vector3_i16_table(file, n.p, n.v)
       IN  IF ~n.ok
           THEN Raise("struct.error") /\ pos' = n.p /\ UNCHANGED indices
           ELSE /\ indices' = indices \o t.v
                /\ pos' = t.p
                /\ IF t.ok
                   THEN pc' = "load_materials" /\ UNCHANGED <<err, fopen>>
                   ELSE Raise("struct.error")
    /\ UNCHANGED <<skeleton, skeleton_data, self, identifier, animVars, format, bounding_box, vertices, materials,
                   strips, pool, version, vert_count>>
    /\ UNCHANGED <<file, i, bone_count, dummy_count, bstring, ret, format_code,
                   bones, dummies, out>>

\* load, lines 162-164: the materials.
load_materials ==
    /\ pc = "load_materials"
    /\ LET n == read_i16(file, pos)
           t == read_i16_table(file, n.p, n.v)
       IN  IF ~n.ok
           THEN Raise("struct.error") /\ pos' = n.p /\ UNCHANGED materials
           ELSE /\ materials' = materials \o t.v
                /\ pos' = t.p
                /\ IF t.ok
                   THEN pc' = "load_strips" /\ UNCHANGED <<err, fopen>>
                   ELSE Raise("struct.error")
    /\ UNCHANGED <<skeleton, skeleton_data, self, identifier, animVars, format, bounding_box, vertices, indices,
                   strips, pool, version, vert_count>>
    /\ UNCHANGED <<file, i, bone_count, dummy_count, bstring, ret, format_code,
                   bones, dummies, out>>

\* load, lines 166-168: the strips.
load_strips ==
    /\ pc = "load_strips"
    /\ LET n == read_i16(file, pos)
           t == read_i16_table(file, n.p, n.v)
       IN  IF ~n.ok
           THEN Raise("struct.error") /\ pos' = n.p /\ UNCHANGED strips
           ELSE /\ strips' = strips \o t.v
                /\ pos' = t.p
                /\ IF t.ok
                   THEN pc' = "load_pool" /\ UNCHANGED <<err, fopen>>
                   ELSE Raise("struct.error")
    /\ UNCHANGED <<skeleton, skeleton_data, self, identifier, animVars, format, bounding_box, vertices, indices,
                   materials, pool, version, vert_count>>
    /\ UNCHANGED <<file, i, bone_count, dummy_count, bstring, ret, format_code,
                   bones, dummies, out>>

\* Mutant of load_pool: no except clause, a failed read_i16 raises.
load_pool_no_except ==
    /\ pc = "load_pool"
    /\ IF version[1] >= 8
       THEN LET r == read_i16(file, pos) IN
            /\ pos' = r.p
            /\ IF r.ok
               THEN pool' = r.v /\ pc' = "loaded" /\ fopen' = FALSE /\ UNCHANGED err
               ELSE Raise("struct.error") /\ UNCHANGED pool
       ELSE /\ pc' = "loaded"
            /\ fopen' = FALSE
            /\ UNCHANGED <<pos, pool, err>>
    /\ UNCHANGED <<skeleton, skeleton_data, self, identifier, animVars, format, bounding_box, vertices, indices,
                   materials, strips, version, vert_count>>
    /\ UNCHANGED <<file, i, bone_count, dummy_count, bstring, ret, format_code,
                   bones, dummies, out>>

\* load, lines 170-174: the pool of version 8; any exception of read_i16 is
\* caught.  Then the with block is left.
load_pool ==
    /\ pc = "load_pool"
    /\ IF version[1] >= 8
       THEN LET r == read_i16(file, pos) IN
            /\ pos' = r.p
            /\ pool' = IF r.ok THEN r.v ELSE pool
       ELSE UNCHANGED <<pos, pool>>
    /\ pc' = "loaded"
    /\ fopen' = FALSE
    /\ UNCHANGED <<skeleton, skeleton_data, self, identifier, animVars, format, bounding_box, vertices, indices,
                   materials, strips, version, vert_count>>
    /\ UNCHANGED <<file, err, i, bone_count, dummy_count, bstring, ret, format_code,
                   bones, dummies, out>>

(***************************************************************************)
(* The mesh files the model reads.  The value of component c of vertex v   *)
(* in pass k is 100 k + 10 v + c, so that no two fields hold the same      *)
(* value.                                                                  *)
(***************************************************************************)
MaxVertices == 2
MaxTable == 2

InValue(k, v, c) == 100 * k + 10 * v + c

RECURSIVE InFloatFields(_, _, _, _)
\* Components from..to of vertex v in pass k, as float32.
InFloatFields(k, v, from, to) ==
    IF from > to THEN <<>>
    ELSE pack_f32(Fl(InValue(k, v, from))) \o InFloatFields(k, v, from + 1, to)

RECURSIVE InShortFields(_, _, _, _)
InShortFields(k, v, from, to) ==
    IF from > to THEN <<>>
    ELSE pack_i16(InValue(k, v, from)) \o InShortFields(k, v, from + 1, to)

\* The bytes of vertex v in pass k.
InAttribute(k, v) ==
    CASE k \in {1, 2, 5} -> InFloatFields(k, v, 1, 3)
      [] k = 3 -> InFloatFields(k, v, 1, 4)
      [] k = 4 -> InFloatFields(k, v, 1, 4) \o InShortFields(k, v, 5, 8)
      [] k \in 6..9 -> InFloatFields(k, v, 1, 2)

\* Whether a file of this format holds pass k: the bit of the attribute, and
\* for the combined pass both the weight and the index bit.
InPassPresent(k, fmt) ==
    CASE k = 1 -> BitSet(VertexFormat_POSITION, fmt)
      [] k = 2 -> BitSet(VertexFormat_NORMAL, fmt)
      [] k = 3 -> BitSet(VertexFormat_COLOR, fmt)
      [] k = 4 -> BitSet(VertexFormat_BONEWEIGHT, fmt) /\ BitSet(VertexFormat_BONEINDEX, fmt)
      [] k = 5 -> BitSet(VertexFormat_TANGENT, fmt)
      [] k = 6 -> BitSet(VertexFormat_UV1, fmt)
      [] k = 7 -> BitSet(VertexFormat_UV2, fmt)
      [] k = 8 -> BitSet(VertexFormat_UV3, fmt)
      [] k = 9 -> BitSet(VertexFormat_UV4, fmt)

RECURSIVE InPass(_, _, _)
InPass(k, v, n) == IF v > n THEN <<>> ELSE InAttribute(k, v) \o InPass(k, v + 1, n)

RECURSIVE InPasses(_, _, _)
InPasses(k, fmt, n) ==
    IF k > 9 THEN <<>>
    ELSE (IF InPassPresent(k, fmt) THEN InPass(k, 1, n) ELSE <<>>) \o InPasses(k + 1, fmt, n)

\* A table of n entries of w int16 each, entry e of table t holding the
\* values 100 t + 10 e + 1 and on.
RECURSIVE InTable(_, _, _, _)
InTable(t, e, n, w) ==
    IF e > n THEN <<>> ELSE InShortFields(t, e, 1, w) \o InTable(t, e + 1, n, w)

\* tail: the bytes after the strip table.
InMeshFile(id, fmt, nverts, ntable, tail) ==
    id \o <<0>> \o pack_i32(fmt) \o InFloatFields(0, 0, 1, 6)
    \o pack_i16(ntable) \o InTable(10, 1, ntable, 1)
    \o pack_i16(nverts) \o InPasses(1, fmt, nverts)
    \o pack_i16(ntable) \o InTable(11, 1, ntable, 3)
    \o pack_i16(ntable) \o InTable(12, 1, ntable, 1)
    \o pack_i16(ntable) \o InTable(13, 1, ntable, 1)
    \o tail

\* Every combination of the ten vertex format bits.
InAllFormats == { 2 * k : k \in 0..1023 }

InFormats ==
    { 0, VertexFormat_POSITION + VertexFormat_UV2,
      VertexFormat_POSITION + VertexFormat_BONEWEIGHT + VertexFormat_BONEINDEX,
      VertexFormat_COLOR + VertexFormat_BONEINDEX }

\* The pool field.
InPool == pack_i16(5)

ZMS0006 == <<90, 77, 83, 48, 48, 48, 54>>

InMeshFiles ==
    { InMeshFile(ZMS0008, fmt, MaxVertices, MaxTable, InPool) : fmt \in InAllFormats }
    \cup
    { InMeshFile(l[1], l[2], l[3], l[4], InPool) :
        l \in {ZMS0007, ZMS0008} \X InFormats \X (0..MaxVertices) \X (0..MaxTable) }
    \cup
    { InMeshFile(id, VertexFormat_POSITION, 1, 1, InPool) : id \in {ZMS0006, <<255>>, <<>>} }

\* The prefixes of the files of one vertex.
InMeshCuts ==
    UNION { { Take(InMeshFile(l[1], l[2], 1, l[3], InPool), n) :
                n \in 0..Len(InMeshFile(l[1], l[2], 1, l[3], InPool)) } :
            l \in {ZMS0007, ZMS0008} \X InFormats \X (0..MaxTable) }

InMeshStreams == InMeshFiles \cup InMeshCuts

InitMesh ==
    /\ file \in InMeshStreams
    /\ Constructed("MeshImportData")

NextMesh ==
    \/ load
    \/ read_str
    \/ load_version
    \/ load_format
    \/ load_bones
    \/ load_vertices
    \/ load_pass
    \/ load_indices
    \/ load_materials
    \/ load_strips
    \/ load_pool

SpecMesh == InitMesh /\ [][NextMesh]_vars

(***************************************************************************)
(* The three codecs together: one object of one of the classes, and the    *)
(* calls on it.                                                            *)
(***************************************************************************)
Init == InitSkeleton \/ InitAnimation \/ InitMesh

Next == NextSkeleton \/ NextAnimation \/ NextMesh

Spec == Init /\ [][Next]_vars

(***************************************************************************)
(* The decoders of the formats with terminated strings, on the prefixes of *)
(* one skeleton and of one mesh, each call running on to its end: a step   *)
(* that can be taken is taken.                                             *)
(***************************************************************************)
InStringStreams(f) == { Take(f, n) : n \in 0..Len(f) }

InitStrings ==
    \/ /\ file \in InStringStreams(InSkeletonFile(ZMD0003, "values", 2, 1, TRUE, TRUE))
       /\ Constructed("SkeletonData")
    \/ /\ file \in InStringStreams(InMeshFile(ZMS0008, VertexFormat_POSITION, 1, 1, InPool))
       /\ Constructed("MeshImportData")

NextStrings ==
    \/ load_data
    \/ _load_format_code
    \/ _load_bones
    \/ _load_bones_loop
    \/ read_str
    \/ bone_tail
    \/ _load_dummies
    \/ _load_dummies_loop
    \/ dummy_tail
    \/ load
    \/ load_version
    \/ load_format
    \/ load_bones
    \/ load_vertices
    \/ load_pass
    \/ load_indices
    \/ load_materials
    \/ load_strips
    \/ load_pool

SpecStrings == InitStrings /\ [][NextStrings]_vars /\ WF_vars(NextStrings)

(***************************************************************************)
(* Skeletons built with their fields given, as zmd_export.py builds them   *)
(* (SkeletonData(int(format_code), bones, dummies)), saved, and the file   *)
(* written read by a new SkeletonData.                                     *)
(***************************************************************************)

\* SkeletonData(format_code, bones, dummies)
SkeletonData_init(fc, bs, ds) ==
    /\ self = "SkeletonData"
    /\ pc = "built"
    /\ file = <<>>
    /\ pos = 0
    /\ fopen = FALSE
    /\ err = "none"
    /\ i = 0
    /\ j = 0
    /\ bone_count = <<>>
    /\ dummy_count = <<>>
    /\ bstring = <<>>
    /\ ret = "none"
    /\ format_code = fc
    /\ bones = bs
    /\ dummies = ds
    /\ out = <<>>
    /\ fps = 0
    /\ frame_count = 0
    /\ channel_count = <<>>
    /\ channels = <<>>
    /\ alpha = <<>>
    /\ identifier = <<>>
    /\ format = -1
    /\ bounding_box = <<Zero3, Zero3>>
    /\ vertices = <<>>
    /\ indices = <<>>
    /\ materials = <<>>
    /\ strips = <<>>
    /\ pool = 0
    /\ version = <<>>
    /\ vert_count = 0
    /\ skeleton_data = <<>>
    /\ skeleton = <<>>

\* SkeletonData().load_data(filepath) on the file a save_data call has left,
\* up to the open: a new object, whose fields are the defaults of __init__;
\* the object saved and the outcome of its save_data are remembered.
load_data_written ==
    /\ self = "SkeletonData"
    /\ skeleton_data = <<>>
    /\ pc \in {"saved", "raised"}
    /\ file = <<>>
    /\ skeleton_data' = [format_code |-> format_code, bones |-> bones,
                         dummies |-> dummies, pc |-> pc, err |-> err]
    /\ file' = out
    /\ pos' = 0
    /\ fopen' = TRUE
    /\ err' = "none"
    /\ i' = 0
    /\ bone_count' = <<>>
    /\ dummy_count' = <<>>
    /\ bstring' = <<>>
    /\ ret' = "none"
    /\ format_code' = 0
    /\ bones' = <<>>
    /\ dummies' = <<>>
    /\ pc' = "_load_format_code"
    /\ UNCHANGED <<skeleton, out, self, identifier, animVars, meshVars>>

\* A code point that EUC-KR cannot encode.
Unencodable == 3585

OutVariants == {"plain", "values", "hangul", "badparent", "badbone", "baddummy", "nul"}

\* The name of record k of n; letter is "b" for a bone and "p" for a dummy.
OutName(var, letter, k, n) ==
    CASE var = "plain" -> <<>>
      [] var = "hangul" -> <<Hangul, 48 + k>>
      [] var = "badbone" /\ letter = 98 /\ k = n -> <<letter, Unencodable>>
      [] var = "baddummy" /\ letter = 112 /\ k = n -> <<letter, Unencodable>>
      [] var = "nul" -> <<letter, 0, 48 + k>>
      [] OTHER -> <<letter, 48 + k>>

\* The parent of record k: the bone before it for a bone, bone 0 for the
\* first bone and for a dummy; in "badparent" an index past every bone.
OutParent(var, letter, k) ==
    IF var = "badparent" THEN MaxBones + 3
    ELSE IF var = "plain" \/ letter = 112 \/ k = 1 THEN 0
    ELSE k - 2

OutRecord(var, letter, k, n) ==
    [parent |-> OutParent(var, letter, k),
     name |-> OutName(var, letter, k, n),
     position |-> IF var = "plain" THEN Zero3 ELSE <<Fl(100 * k), Fl(50), Fl(-3)>>,
     rotation |-> IF var = "plain" THEN Identity ELSE <<Fl(0), Fl(k), Fl(1), Fl(0)>>]

OutRecords(var, letter, n) == [k \in 1..n |-> OutRecord(var, letter, k, n)]

\* The versions of the exporter, and two that do not fit the header.
OutFormatCodes == {2, 3, 10, -1}

InitExport ==
    \E fc \in OutFormatCodes, var \in OutVariants, nb \in 0..MaxBones, nd \in 0..MaxDummies :
        SkeletonData_init(fc, OutRecords(var, 98, nb), OutRecords(var, 112, nd))

NextExport ==
    \/ save_data
    \/ _save_format_code
    \/ _save_bones
    \/ _save_bones_loop
    \/ _save_dummies
    \/ _save_dummies_loop
    \/ load_data_written
    \/ _load_format_code
    \/ _load_bones
    \/ _load_bones_loop
    \/ read_str
    \/ bone_tail
    \/ _load_dummies
    \/ _load_dummies_loop
    \/ dummy_tail

SpecExport == InitExport /\ [][NextExport]_vars

(***************************************************************************)
(* One object, several calls: load_data (load) is a method and may be      *)
(* called again on the object that an earlier call filled.  The lists of   *)
(* the object are created by __init__ only.                                *)
(***************************************************************************)
InReuseSkeletonFiles ==
    { InSkeletonFile(ZMD0003, "values", nb, nd, TRUE, TRUE) :
        nb \in 0..MaxBones, nd \in 0..MaxDummies }
    \cup
    { InSkeletonFile(ZMD0002, "plain", nb, 0, TRUE, FALSE) : nb \in 0..MaxBones }

InReuseMeshFiles ==
    { InMeshFile(ZMS0008, l[1], l[2], l[3], InPool) :
        l \in {VertexFormat_POSITION, 0} \X (0..MaxVertices) \X (0..MaxTable) }

\* SkeletonData.load_data called on an object that load_data has filled: the
\* locals of the call are new, the fields are the ones the object has.
load_data_again ==
    /\ self = "SkeletonData"
    /\ pc = "loaded"
    /\ Len(bones) <= MaxBones
    /\ Len(dummies) <= MaxDummies
    /\ file' \in InReuseSkeletonFiles
    /\ pc' = "_load_format_code"
    /\ fopen' = TRUE
    /\ pos' = 0
    /\ i' = 0
    /\ bone_count' = <<>>
    /\ dummy_count' = <<>>
    /\ UNCHANGED <<skeleton, skeleton_data, self, identifier, animVars, meshVars>>
    /\ UNCHANGED <<err, bstring, ret, format_code, bones, dummies, out>>

\* MeshImportData.load called on an object that load has filled.
load_again ==
    /\ self = "MeshImportData"
    /\ pc = "loaded"
    /\ Len(vertices) <= MaxVertices
    /\ Len(bones) <= MaxTable
    /\ Len(indices) <= MaxTable
    /\ file' \in InReuseMeshFiles
    /\ fopen' = TRUE
    /\ pos' = 0
    /\ bstring' = <<>>
    /\ ret' = "mesh"
    /\ pc' = "read_str"
    /\ i' = 0
    /\ bone_count' = <<>>
    /\ version' = <<>>
    /\ vert_count' = 0
    /\ UNCHANGED <<skeleton, skeleton_data, self, identifier, animVars, format, bounding_box,
                   vertices, indices, materials, strips, pool>>
    /\ UNCHANGED <<err, dummy_count, format_code, bones, dummies, out>>

InitReuse ==
    \/ file \in InReuseSkeletonFiles /\ Constructed("SkeletonData")
    \/ file \in InReuseMeshFiles /\ Constructed("MeshImportData")

NextReuse ==
    \/ load_data
    \/ _load_format_code
    \/ _load_bones
    \/ _load_bones_loop
    \/ read_str
    \/ bone_tail
    \/ _load_dummies
    \/ _load_dummies_loop
    \/ dummy_tail
    \/ load_data_again
    \/ load
    \/ load_version
    \/ load_format
    \/ load_bones
    \/ load_vertices
    \/ load_pass
    \/ load_indices
    \/ load_materials
    \/ load_strips
    \/ load_pool
    \/ load_again

SpecReuse == InitReuse /\ [][NextReuse]_vars

(***************************************************************************)
(* zmd_import.py: Skeleton(data), built on the SkeletonData that load_data *)
(* has filled.  A rotation is kept as the product it is: the sequence of   *)
(* the indices of the bones whose rotations are its factors, from left to  *)
(* right; Quaternion() is the empty product.                               *)
(***************************************************************************)
MaxJoints == 3

\* Parents of n bones: bone 0 is its own parent, every other bone has an
\* earlier bone as its parent.
InParents(n) ==
    { ps \in [1..n -> 0..(n - 1)] : ps[1] = 0 /\ \A k \in 2..n : ps[k] < k - 1 }

RECURSIVE InTreeBones(_, _)
InTreeBones(ps, k) ==
    IF k > Len(ps) THEN <<>>
    ELSE pack_i32(ps[k]) \o InName("values", 98, k) \o <<0>>
         \o InVec(InPosition("values", k)) \o InVec(InRotation("values", k))
         \o InTreeBones(ps, k + 1)

RECURSIVE InTreeDummies(_, _)
InTreeDummies(ds, k) ==
    IF k > Len(ds) THEN <<>>
    ELSE InName("values", 112, k) \o <<0>> \o pack_i32(ds[k])
         \o InVec(InPosition("values", k + 4)) \o InVec(InRotation("values", k + 4))
         \o InTreeDummies(ds, k + 1)

InTreeFile(ps, ds) ==
    ZMD0003 \o pack_i32(Len(ps)) \o InTreeBones(ps, 1)
    \o pack_i32(Len(ds)) \o InTreeDummies(ds, 1)

\* The version 3 files of 1..MaxJoints bones and 0..MaxDummies dummies, a
\* dummy having any of the bones as its parent.
InTreeFiles ==
    UNION { UNION { { InTreeFile(ps, ds) : ps \in InParents(nb), ds \in [1..nd -> 0..(nb - 1)] } :
                    nd \in 0..MaxDummies } :
            nb \in 1..MaxJoints }

\* _get_parent_rotation(index, is_dummy), lines 110-112, called by
\* _get_rotation and _get_translation: for bone 0 (_load_root_bone), for the
\* bones from 1 on (_load_bones) and for every dummy (_load_dummies).
_get_parent_rotation ==
    /\ self = "SkeletonData"
    /\ pc = "loaded"
    /\ \E d \in BOOLEAN :
         \E index \in 0..(Len(IF d THEN dummies ELSE bones) - 1) :
            skeleton' = [index |-> index, is_dummy |-> d,
                         current |-> IF d THEN dummies[index + 1].parent
                                     ELSE bones[index + 1].parent,
                         rotation |-> <<>>]
    /\ pc' = "_get_parent_rotation"
    /\ UNCHANGED <<skeleton_data, self, identifier, animVars, meshVars>>
    /\ UNCHANGED <<file, pos, fopen, err, i, bone_count, dummy_count, bstring, ret,
                   format_code, bones, dummies, out>>

\* _get_parent_rotation, lines 113-118: the test of the while loop and one
\* iteration of it, or the return.
_get_parent_rotation_loop ==
    /\ pc = "_get_parent_rotation"
    /\ IF skeleton.index # 0
       THEN IF ~IndexOK(skeleton.current, Len(bones))
            THEN pc' = "raised" /\ err' = "IndexError" /\ UNCHANGED skeleton
            ELSE LET at == IF skeleton.current < 0
                           THEN skeleton.current + Len(bones)
                           ELSE skeleton.current
                     rotation == <<at>> \o skeleton.rotation
                 IN  IF skeleton.current = 0
                     THEN /\ skeleton' = [skeleton EXCEPT !.rotation = rotation]
                          /\ pc' = "returned"
                          /\ UNCHANGED err
                     ELSE /\ skeleton' = [skeleton EXCEPT !.rotation = rotation,
                                                         !.current = bones[at + 1].parent]
                          /\ UNCHANGED <<pc, err>>
       ELSE pc' = "returned" /\ UNCHANGED <<skeleton, err>>
    /\ UNCHANGED <<skeleton_data, self, identifier, animVars, meshVars>>
    /\ UNCHANGED <<file, pos, fopen, i, bone_count, dummy_count, bstring, ret,
                   format_code, bones, dummies, out>>

InitImport ==
    /\ file \in InTreeFiles
    /\ Constructed("SkeletonData")

NextImport ==
    \/ load_data
    \/ _load_format_code
    \/ _load_bones
    \/ _load_bones_loop
    \/ read_str
    \/ bone_tail
    \/ _load_dummies
    \/ _load_dummies_loop
    \/ dummy_tail
    \/ _get_parent_rotation
    \/ _get_parent_rotation_loop

\* Every call that has started goes on: nothing else runs in the importer.
SpecImport == InitImport /\ [][NextImport]_vars /\ WF_vars(NextImport)

(***************************************************************************)
(* Properties of the skeleton codec.                                       *)
(***************************************************************************)

C2_RoundTrip ==
    (self = "SkeletonData" /\ pc = "saved" /\ dummy_count # <<>> /\ pos = Len(file))
        => out = file

RECURSIVE BoneRecordsLen(_)
\* The bytes the bone records of bs take in a stream: parent, name,
\* terminator, position and rotation each.
BoneRecordsLen(bs) ==
    IF bs = <<>> THEN 0
    ELSE 4 + Len(euc_kr_encode(bs[1].name).bs) + 1 + 12 + 16 + BoneRecordsLen(Tail(bs))

AnimationFields ==
    << [bit |-> TrackType_POSITION, n |-> 3], [bit |-> TrackType_ROTATION, n |-> 4],
       [bit |-> TrackType_NORMAL, n |-> 3], [bit |-> TrackType_ALPHA, n |-> 1],
       [bit |-> TrackType_UV1, n |-> 2], [bit |-> TrackType_UV2, n |-> 2],
       [bit |-> TrackType_UV3, n |-> 2], [bit |-> TrackType_UV4, n |-> 2],
       [bit |-> TrackType_TEXTUREANIM, n |-> 1], [bit |-> TrackType_SCALE, n |-> 1] >>

\* Whether field x of a channel of this type is in the payload: its bit is
\* set, and for the rotation the POSITION bit is not.
FieldEnabled(type, x) ==
    /\ BitSet(AnimationFields[x].bit, type)
    /\ (x = 2 => ~BitSet(TrackType_POSITION, type))

FieldOf(ch, x) ==
    CASE x = 1 -> ch.position [] x = 2 -> ch.rotation [] x = 3 -> ch.normal
      [] x = 4 -> ch.alpha [] x = 5 -> ch.uv_1 [] x = 6 -> ch.uv_2
      [] x = 7 -> ch.uv_3 [] x = 8 -> ch.uv_4
      [] x = 9 -> ch.texture_animation [] x = 10 -> ch.scale

RECURSIVE FloatsBefore(_, _)
\* The float32 fields of a channel block that precede field x.
FloatsBefore(type, x) ==
    IF x = 1 THEN 0
    ELSE FloatsBefore(type, x - 1)
         + (IF FieldEnabled(type, x - 1) THEN AnimationFields[x - 1].n ELSE 0)

ChannelFloats(type) == FloatsBefore(type, 11)

RECURSIVE ChannelsFloats(_, _)
\* The float32 fields of the blocks of channels 1..c of one frame.
ChannelsFloats(chs, c) ==
    IF c = 0 THEN 0 ELSE ChannelsFloats(chs, c - 1) + ChannelFloats(chs[c].type)

\* C6: while a channel with both the POSITION and the ROTATION bit is decoded
\* for one frame, one position is appended, no rotation is, and the cursor
\* moves by the 12 bytes of the position and the bytes of the other enabled
\* fields; its rotation sequence is always empty and after load_data its
\* position sequence has frame_count entries.
C6_PositionExcludesRotation ==
    /\ [][ (self = "AnimationData" /\ pc = "_load_channel_data" /\ pc' # "raised"
             /\ i < frame_count /\ Len(channels) > 0
             /\ positions_enabled(channels[j + 1])
             /\ rotations_enabled(channels[j + 1])) =>
              /\ Len(channels'[j + 1].position) = Len(channels[j + 1].position) + 1
              /\ channels'[j + 1].rotation = <<>>
              /\ pos' = pos + 12
                          + 4 * (ChannelFloats(channels[j + 1].type)
                                 - FloatsBefore(channels[j + 1].type, 3)) ]_vars
    /\ [](self = "AnimationData" =>
            \A c \in 1..Len(channels) :
                (positions_enabled(channels[c]) /\ rotations_enabled(channels[c])) =>
                    /\ channels[c].rotation = <<>>
                    /\ pc = "loaded" => Len(channels[c].position) = frame_count)

\* C6, witness: a channel with both bits was decoded over two frames or more.
C6_Witness ==
    /\ self = "AnimationData" /\ pc = "loaded" /\ frame_count >= 2
    /\ \E c \in 1..Len(channels) :
          /\ positions_enabled(channels[c]) /\ rotations_enabled(channels[c])
          /\ Len(channels[c].position) = frame_count
          /\ channels[c].rotation = <<>>

\* The stream holds the descriptors read and the whole payload of
\* frame_count frames of these channels.
AnimationComplete ==
    /\ channel_count # <<>>
    /\ Len(channels) = channel_count[1]
    /\ Len(file) >= 20 + 8 * Len(channels)
                    + 4 * frame_count * ChannelsFloats(channels, Len(channels))

\* C7, as claimed: on a stream with the complete payload load_data ends
\* without an error, and then every enabled field of every channel has
\* frame_count entries and every other field has none.
C7_EnabledFieldsComplete ==
    (self = "AnimationData" /\ AnimationComplete /\ pc \in {"loaded", "raised"}) =>
        /\ pc = "loaded"
        /\ \A c \in 1..Len(channels) : \A x \in 1..10 :
              Len(FieldOf(channels[c], x)) =
                  IF FieldEnabled(channels[c].type, x) THEN frame_count ELSE 0

\* The value the stream holds for field x of channel c in frame k (from 0):
\* the float32 of the field at its place in the payload, a position divided
\* by 100.
StreamValue(c, x, k) ==
    LET at == 20 + 8 * Len(channels)
              + 4 * (k * ChannelsFloats(channels, Len(channels))
                     + ChannelsFloats(channels, c - 1)
                     + FloatsBefore(channels[c].type, x))
        v == read_floats(file, at, AnimationFields[x].n).v
    IN  IF x = 1 THEN Div100Vec(v)
        ELSE IF AnimationFields[x].n = 1 THEN v[1] ELSE v

\* C8, as claimed: after load_data the k-th entry of every enabled field of
\* every channel is the value the stream holds for that field in frame k.
C8_ValuesInOrder ==
    (self = "AnimationData" /\ pc = "loaded") =>
        \A c \in 1..Len(channels) : \A x \in 1..10 :
            \A k \in 1..Len(FieldOf(channels[c], x)) :
                FieldEnabled(channels[c].type, x) =>
                    FieldOf(channels[c], x)[k] = StreamValue(c, x, k - 1)

(***************************************************************************)
(* Properties of the lenient reads and of the headers.                     *)
(***************************************************************************)

\* C4, as claimed: with 1 to 3 bytes where the dummy count starts load_data
\* of the skeleton ends with an error, and with 1 byte where the pool of a
\* version-8 mesh starts load of the mesh ends with an error.
C4_PartialReadFatal ==
    /\ [][ (self = "SkeletonData" /\ pc = "_load_dummies"
             /\ Len(file) - pos \in 1..3) => pc' = "raised" ]_vars
    /\ [][ (self = "MeshImportData" /\ pc = "load_pool" /\ version = <<8>>
             /\ Len(file) - pos = 1) => pc' = "raised" ]_vars

\* The bytes of a stream before its first zero byte, the stream without one
\* as a whole.
RECURSIVE UpToNull(_)
UpToNull(f) ==
    IF f = <<>> \/ f[1] = 0 THEN <<>> ELSE <<f[1]>> \o UpToNull(Tail(f))

\* C5, as claimed: once the header of a stream is read and is not one of the
\* tokens of its format, the call has raised the parse error (in the mesh
\* decoder it is about to, at the version check) with the cursor just after
\* the header, nothing is stored and the version tag of the skeleton is the
\* one it had.
C5_UnrecognizedHeaderFatal ==
    /\ (self = "SkeletonData" /\ pc \notin {"SkeletonData", "_load_format_code"}
        /\ f_read(file, 0, 7) \notin {ZMD0002, ZMD0003}) =>
            /\ pc = "raised" /\ err = "RoseParseError"
            /\ pos = Min(7, Len(file))
            /\ format_code = 0
            /\ bones = <<>> /\ dummies = <<>>
    /\ (self = "MeshImportData" /\ pos > Len(UpToNull(file))
        /\ UpToNull(file) \notin {ZMS0007, ZMS0008}) =>
            /\ pc = "load_version" \/ (pc = "raised" /\ err = "RoseParseError")
            /\ pos = Len(UpToNull(file)) + 1
            /\ version = <<>>
            /\ bones = <<>> /\ vertices = <<>> /\ indices = <<>>
            /\ materials = <<>> /\ strips = <<>>

(***************************************************************************)
(* Properties of the mesh decoder.                                         *)
(***************************************************************************)

\* The bytes of one vertex in pass k.
AttributeSize(k) ==
    CASE k \in {1, 2, 5} -> 12 [] k = 3 -> 16 [] k = 4 -> 24 [] k \in 6..9 -> 8

RECURSIVE AttributeBytes(_, _, _)
\* The bytes of the passes before pass k of a mesh of n vertices.
AttributeBytes(k, fmt, n) ==
    IF k = 1 THEN 0
    ELSE AttributeBytes(k - 1, fmt, n)
         + (IF InPassPresent(k - 1, fmt) THEN n * AttributeSize(k - 1) ELSE 0)

\* Where the vertex data starts: after the identifier and its terminator,
\* the format, the bounding box, the bone table and the vertex count.
VertexDataOffset == Len(UpToNull(file)) + 1 + 4 + 24 + 2 + 2 * Len(bones) + 2

\* What the stream holds for vertex v (from 1) in pass k.
StreamAttribute(k, v) ==
    LET at == VertexDataOffset + AttributeBytes(k, format, Len(vertices))
              + (v - 1) * AttributeSize(k)
    IN  CASE k \in {1, 2, 5} -> read_vector3_f32(file, at).v
          [] k = 3 -> read_color(file, at).v
          [] k = 4 -> <<read_vector4_f32(file, at).v, read_vector4_i16(file, at + 16).v>>
          [] k \in 6..9 -> read_vector2_f32(file, at).v

\* What a new Vertex holds for pass k.
DefaultAttribute(k) ==
    CASE k \in {1, 2, 5} -> Zero3
      [] k = 3 -> Zero3
      [] k = 4 -> <<Zero4, Zero4>>
      [] k \in 6..9 -> None

AttributeOf(vtx, k) ==
    CASE k = 1 -> vtx.position [] k = 2 -> vtx.normal [] k = 3 -> vtx.color
      [] k = 4 -> <<vtx.bone_weights, vtx.bone_indices>>
      [] k = 5 -> vtx.tangent
      [] k \in 6..9 -> vtx.uv_layers[k - 5]

\* The nine passes over the vertices are over; load changes no vertex after
\* them.
PassesDone ==
    pc \in {"load_indices", "load_materials", "load_strips", "load_pool", "loaded"}

\* C9: once the passes of load are over, and so after load, for every vertex
\* format, position, normal, color, tangent and each uv layer of every vertex
\* hold what the stream holds for them if their bit is set, bone weights and
\* bone indices if both the BONEWEIGHT and the BONEINDEX bit are, and every
\* other attribute is as in a new Vertex.
C9_FieldIsolation ==
    (self = "MeshImportData" /\ PassesDone) =>
        /\ Len(vertices) = vert_count
        /\ \A v \in 1..Len(vertices) : \A k \in 1..9 :
              AttributeOf(vertices[v], k) =
                  IF InPassPresent(k, format) THEN StreamAttribute(k, v)
                  ELSE DefaultAttribute(k)

\* C9, witness: a mesh of two vertices or more with only POSITION and UV2
\* was decoded; position and uv_layers[1] hold data, the rest their defaults.
C9_Witness ==
    /\ self = "MeshImportData" /\ pc = "loaded"
    /\ format = VertexFormat_POSITION + VertexFormat_UV2
    /\ Len(vertices) >= 2
    /\ \A v \in 1..Len(vertices) :
          /\ vertices[v].position # Zero3
          /\ vertices[v].uv_layers[2] # None
          /\ vertices[v].uv_layers[1] = None
          /\ vertices[v].normal = Zero3
          /\ vertices[v].bone_weights = Zero4

\* Where the pool field starts, by what was decoded before it.
PoolOffset ==
    VertexDataOffset + AttributeBytes(10, format, Len(vertices))
    + 2 + 6 * Len(indices) + 2 + 2 * Len(materials) + 2 + 2 * Len(strips)

\* C10: a version-8 stream that ends where the pool starts is decoded without
\* an error and with pool = 0; a version-8 stream that ends inside the strip
\* count or the strip table makes load raise; for version 7 the pool step
\* reads nothing, whatever follows the strip table.
C10_PoolLeniency ==
    /\ [][ (self = "MeshImportData" /\ pc = "load_pool" /\ version = <<8>>
             /\ pos = Len(file)) =>
              (pc' = "loaded" /\ err' = "none" /\ pool' = 0) ]_vars
    /\ [][ (self = "MeshImportData" /\ pc = "load_strips" /\ version = <<8>>
             /\ LET n == read_i16(file, pos) IN
                ~n.ok \/ Len(file) < n.p + 2 * n.v) =>
              (pc' = "raised" /\ err' = "struct.error") ]_vars
    /\ [][ (self = "MeshImportData" /\ pc = "load_pool" /\ version = <<7>>) =>
              (pc' = "loaded" /\ pos' = pos /\ pool' = pool) ]_vars

\* C10, witness: a version-8 stream with a strip that ends exactly where the
\* pool would start was decoded, with pool = 0.
C10_Witness ==
    /\ self = "MeshImportData" /\ pc = "loaded" /\ version = <<8>>
    /\ Len(strips) >= 1
    /\ Len(file) = PoolOffset
    /\ pool = 0

(***************************************************************************)
(* Properties of the scaling of positions.                                 *)
(***************************************************************************)

Mul100Vec(v) == <<Mul100(v[1]), Mul100(v[2]), Mul100(v[3])>>

\* The 12 position bytes of the record that save_data of a bone or a dummy
\* b has appended to a file of n bytes, now w.
WrittenPosition(w, n, b) ==
    LET at == n + 4 + Len(euc_kr_encode(b.name).bs) + 1 IN
    SubSeq(w, at + 1, at + 12)

\* C11, as claimed: the skeleton and the animation decoder store each
\* position read divided by 100, save_data of the skeleton writes each stored
\* position multiplied by 100, and the mesh decoder stores vertex positions
\* and the bounding box as read.
C11_ScalingAsymmetry ==
    /\ [][ (self = "SkeletonData" /\ pc = "bone_tail" /\ pc' = "_load_bones_loop") =>
              bones'[i + 1].position = Div100Vec(read_vector3_f32(file, pos).v) ]_vars
    /\ [][ (self = "SkeletonData" /\ pc = "dummy_tail" /\ pc' = "_load_dummies_loop") =>
              dummies'[i + 1].position = Div100Vec(read_vector3_f32(file, pos + 4).v) ]_vars
    /\ [][ (self = "AnimationData" /\ pc = "_load_channel_data" /\ pc' # "raised"
             /\ i < frame_count /\ Len(channels) > 0
             /\ positions_enabled(channels[j + 1])) =>
              channels'[j + 1].position =
                  Append(channels[j + 1].position,
                         Div100Vec(read_vector3_f32(file, pos).v)) ]_vars
    /\ [][ (self = "SkeletonData" /\ pc = "_save_bones_loop" /\ i < Len(bones)
             /\ pc' # "raised") =>
              WrittenPosition(out', Len(out), bones[i + 1]) =
                  write_vector3_f32(Mul100Vec(bones[i + 1].position)).bs ]_vars
    /\ [][ (self = "SkeletonData" /\ pc = "_save_dummies_loop" /\ i < Len(dummies)
             /\ pc' # "raised") =>
              WrittenPosition(out', Len(out), dummies[i + 1]) =
                  write_vector3_f32(Mul100Vec(dummies[i + 1].position)).bs ]_vars
    /\ [][ (self = "MeshImportData" /\ pc = "load_format" /\ pc' = "load_bones") =>
              bounding_box' = << read_vector3_f32(file, pos + 4).v,
                                 read_vector3_f32(file, pos + 16).v >> ]_vars
    /\ [][ (self = "MeshImportData" /\ pc = "load_pass" /\ i = 1 /\ pc' # "raised"
             /\ mesh_positions_enabled(format)) =>
              \A v \in 1..vert_count :
                  vertices'[v].position =
                      read_vector3_f32(file, pos + 12 * (v - 1)).v ]_vars

(***************************************************************************)
(* Properties of the skeleton encoder.                                     *)
(***************************************************************************)

\* The bytes of a record of b up to the end of its position: parent, name,
\* terminator and position.
RecordLen(b) == 4 + Len(euc_kr_encode(b.name).bs) + 1 + 12

NameBytes(b) == euc_kr_encode(b.name).bs

\* The field order of the records in a step of load_data or save_data: the
\* parent of a bone is the 4 bytes before its name and the parent of a dummy
\* the 4 bytes after the terminator of its name; the position follows the
\* terminator for a bone and the parent for a dummy; the 16 bytes of the
\* rotation follow the position, for a dummy unless format_code is 2, and for
\* a bone unless format_code is 2 and gated holds.
FieldOrder(gated) ==
    /\ (self = "SkeletonData" /\ pc = "bone_tail" /\ pc' = "_load_bones_loop") =>
              LET b == bones'[i + 1]
                  n == Len(NameBytes(b))
              IN  /\ SubSeq(file, pos - n, pos - 1) = NameBytes(b)
                  /\ file[pos] = 0
                  /\ b.parent = unpack_i32(SubSeq(file, pos - n - 4, pos - n - 1))
                  /\ b.position = Div100Vec(read_vector3_f32(file, pos).v)
                  /\ IF gated /\ format_code = 2
                     THEN pos' = pos + 12 /\ b.rotation = bones[i + 1].rotation
                     ELSE /\ pos' = pos + 28
                          /\ b.rotation = read_vector4_f32(file, pos + 12).v
    /\ (self = "SkeletonData" /\ pc = "dummy_tail" /\ pc' = "_load_dummies_loop") =>
              LET b == dummies'[i + 1]
                  n == Len(NameBytes(b))
              IN  /\ SubSeq(file, pos - n, pos - 1) = NameBytes(b)
                  /\ file[pos] = 0
                  /\ b.parent = unpack_i32(SubSeq(file, pos + 1, pos + 4))
                  /\ b.position = Div100Vec(read_vector3_f32(file, pos + 4).v)
                  /\ IF format_code = 2
                     THEN pos' = pos + 16 /\ b.rotation = dummies[i + 1].rotation
                     ELSE /\ pos' = pos + 32
                          /\ b.rotation = read_vector4_f32(file, pos + 16).v
    /\ (self = "SkeletonData" /\ pc = "_save_bones_loop" /\ i < Len(bones)
             /\ pc' # "raised") =>
              LET b == bones[i + 1] IN
              out' = out \o pack_i32(b.parent) \o NameBytes(b) \o <<0>>
                     \o write_vector3_f32(b.position).bs
                     \o (IF gated /\ format_code = 2 THEN <<>>
                         ELSE write_vector4_f32(b.rotation).bs)
    /\ (self = "SkeletonData" /\ pc = "_save_dummies_loop" /\ i < Len(dummies)
             /\ pc' # "raised") =>
              LET b == dummies[i + 1] IN
              out' = out \o NameBytes(b) \o <<0>> \o pack_i32(b.parent)
                     \o write_vector3_f32(b.position).bs
                     \o (IF format_code = 2 THEN <<>>
                         ELSE write_vector4_f32(b.rotation).bs)

C14_TruncatedStringTerminates ==
    (pc = "read_str" /\ \A k \in (pos + 1)..Len(file) : file[k] # 0) ~> (pc = "raised")

\* C15, as claimed: write_fstr of the header raises and writes nothing when
\* the bytes of 'ZMD000' + str(format_code) are not 7, and the header that
\* save_data writes is always these bytes.
C15_FixedWidthExact ==
    [][ (self = "SkeletonData" /\ pc = "_save_format_code") =>
          LET data == euc_kr_encode(ZMD000 \o str(format_code)).bs IN
          /\ Len(data) # 7 => (pc' = "raised" /\ out' = out)
          /\ pc' # "raised" => out' = out \o data ]_vars

(***************************************************************************)
(* Properties of the order of the mesh stream.                             *)
(***************************************************************************)

\* What a stream holds for one vertex of pass k at offset at.
AttributeAt(k, at) ==
    CASE k \in {1, 2, 5} -> read_vector3_f32(file, at).v
      [] k = 3 -> read_color(file, at).v
      [] k = 4 -> <<read_vector4_f32(file, at).v, read_vector4_i16(file, at + 16).v>>
      [] k \in 6..9 -> read_vector2_f32(file, at).v

\* C16: the passes of load run in the order POSITION, NORMAL, COLOR, weights
\* with indices, TANGENT, UV1, UV2, UV3, UV4, one after the other; a pass
\* whose attribute is in the format reads vert_count values that follow
\* each other in the stream, weights then indices in the combined pass, and
\* stores the i-th of them in vertex i, leaving every other attribute as it
\* was; a pass whose attribute is not in the format reads nothing; the
\* triangle, material and strip tables are read after the ninth pass, in
\* this order, and are empty before.
C16_AttributeMajorOrder ==
    /\ [][ (self = "MeshImportData" /\ pc = "load_vertices" /\ pc' # "raised") =>
              (pc' = "load_pass" /\ i' = 1) ]_vars
    /\ [][ (self = "MeshImportData" /\ pc = "load_pass" /\ pc' # "raised") =>
              /\ i \in 1..9 /\ i' = i + 1
              /\ pc' = IF i = 9 THEN "load_indices" ELSE "load_pass"
              /\ indices = <<>> /\ materials = <<>> /\ strips = <<>>
              /\ Len(vertices') = vert_count
              /\ IF InPassPresent(i, format)
                 THEN /\ pos' = pos + vert_count * AttributeSize(i)
                      /\ \A v \in 1..vert_count :
                            /\ AttributeOf(vertices'[v], i) =
                                 AttributeAt(i, pos + (v - 1) * AttributeSize(i))
                            /\ \A k \in (1..9) \ {i} :
                                 AttributeOf(vertices'[v], k) = AttributeOf(vertices[v], k)
                 ELSE pos' = pos /\ vertices' = vertices ]_vars
    /\ [][ (self = "MeshImportData" /\ pc' # "raised") =>
              /\ pc = "load_indices" =>
                    (pc' = "load_materials" /\ materials = <<>> /\ strips = <<>>)
              /\ pc = "load_materials" => (pc' = "load_strips" /\ strips = <<>>)
              /\ pc = "load_strips" => pc' = "load_pool" ]_vars

\* C16, witness: a mesh of two vertices or more with positions, normals,
\* weights with indices and the first uv layer, and with a triangle, was
\* decoded; the two vertices differ in each of these.
C16_Witness ==
    /\ self = "MeshImportData" /\ pc = "loaded"
    /\ format = VertexFormat_POSITION + VertexFormat_NORMAL + VertexFormat_BONEWEIGHT
                + VertexFormat_BONEINDEX + VertexFormat_UV1
    /\ Len(vertices) >= 2 /\ Len(indices) >= 1
    /\ vertices[1].position # vertices[2].position
    /\ vertices[1].normal # vertices[2].normal
    /\ vertices[1].bone_indices # vertices[2].bone_indices
    /\ vertices[1].uv_layers[1] # vertices[2].uv_layers[1]

(***************************************************************************)
(* Properties of the file written and read again.                          *)
(***************************************************************************)

\* C17: when save_data has raised, the handle is closed, and load_data of a
\* new SkeletonData on the bytes left in the file never ends successfully.
C17_NoCompleteFileAfterFailure ==
    /\ (self = "SkeletonData" /\ skeleton_data = <<>> /\ pc = "raised") => ~fopen
    /\ (self = "SkeletonData" /\ skeleton_data # <<>> /\ skeleton_data.pc = "raised") =>
          pc # "loaded"

\* C17, witness: save_data raised on the name of the last of two bones, and
\* load_data of the file left has read the first bone and the parent of the
\* second and is at the end of the stream, in read_str.
C17_Witness ==
    /\ self = "SkeletonData" /\ skeleton_data # <<>>
    /\ skeleton_data.pc = "raised" /\ skeleton_data.err = "UnicodeEncodeError"
    /\ Len(skeleton_data.bones) = 2
    /\ Len(bones) = 2 /\ pc = "read_str" /\ pos = Len(file)
    /\ Len(file) = 11 + BoneRecordsLen(<<bones[1]>>) + 4

\* C18: when a load_data call has ended successfully the object holds as many
\* bones and dummies as the counts of the file it has just read, and when a
\* load call has ended successfully the object holds as many vertices and
\* bone-table entries as the counts of the file it has just read, however
\* many calls the object has served.
C18_LastFileOnly ==
    /\ (self = "SkeletonData" /\ pc = "loaded") =>
          /\ Len(bones) = bone_count[1]
          /\ dummy_count # <<>> => Len(dummies) = dummy_count[1]
    /\ (self = "MeshImportData" /\ pc = "loaded") =>
          /\ Len(vertices) = vert_count
          /\ Len(bones) = bone_count[1]

\* The streams that are whole files as load_data reads them: a known header,
\* the bone count, that many bone records with rotation, the dummy count and
\* that many dummy records, with rotation in version 3 only, every name
\* decodable.
InWellFormedSkeletonFiles ==
    { InSkeletonFile(ZMD0003, l[1], l[2], l[3], TRUE, TRUE) :
        l \in (InVariants \ {"badname"}) \X (0..MaxBones) \X (0..MaxDummies) }
    \cup
    { InSkeletonFile(ZMD0002, l[1], l[2], l[3], TRUE, FALSE) :
        l \in (InVariants \ {"badname"}) \X (0..MaxBones) \X (0..MaxDummies) }

\* C19: load_data of a well-formed skeleton stream never ends by raising,
\* whatever the parent indices of its bones and dummies are.
C19_ParentsNotValidated ==
    (self = "SkeletonData" /\ file \in InWellFormedSkeletonFiles /\ out = <<>>) =>
        pc # "raised"

\* No name of the records has the code 0 in it.
NoZeroNames(bs) == \A k \in 1..Len(bs) : \A n \in 1..Len(bs[k].name) : bs[k].name[n] # 0

\* Records rs read back as records ws written: as many, in the same order,
\* with the same name and parent, and the same rotation where withrot.
SameRecords(ws, rs, withrot) ==
    /\ Len(rs) = Len(ws)
    /\ \A k \in 1..Len(ws) :
          /\ rs[k].name = ws[k].name
          /\ rs[k].parent = ws[k].parent
          /\ withrot => rs[k].rotation = ws[k].rotation

\* load_data of the written file, when it has ended, has ended successfully
\* with every byte read, the dummy count among them, and the object holds
\* what skeleton_data held; it never waits in read_str at the end of the file.
ReloadAgrees ==
    /\ pc # "raised"
    /\ pc = "read_str" => pos < Len(file)
    /\ pc = "loaded" =>
          /\ pos = Len(file)
          /\ dummy_count # <<>>
          /\ format_code = skeleton_data.format_code
          /\ SameRecords(skeleton_data.bones, bones, TRUE)
          /\ SameRecords(skeleton_data.dummies, dummies, format_code = 3)

\* C20: for every SkeletonData with format_code 2 or 3 and no zero code in a
\* name, load_data of the file that save_data wrote, into a new SkeletonData,
\* ends successfully at the end of the file and yields the same format_code
\* and the same bones and dummies (names, parents, written rotations).
C20_ReaderWriterAgree ==
    ( /\ self = "SkeletonData" /\ skeleton_data # <<>>
      /\ skeleton_data.format_code \in {2, 3}
      /\ NoZeroNames(skeleton_data.bones) /\ NoZeroNames(skeleton_data.dummies) ) =>
        ReloadAgrees

(***************************************************************************)
(* Properties of the importer's walk up the parents.                       *)
(***************************************************************************)
RECURSIVE AncestorChain(_, _)
\* The bones from bone k up to and including bone 0, along the parents.
AncestorChain(bs, k) ==
    IF k = 0 THEN <<0>> ELSE <<k>> \o AncestorChain(bs, bs[k + 1].parent)

Reverse(s) == [k \in 1..Len(s) |-> s[Len(s) + 1 - k]]

\* The parent of the record _get_parent_rotation was called for.
RecordParent ==
    IF skeleton.is_dummy THEN dummies[skeleton.index + 1].parent
    ELSE bones[skeleton.index + 1].parent

\* What _get_parent_rotation has returned is the product of the rotations
\* of the ancestor chain of the record, bone 0 leftmost.
ChainComposed ==
    pc = "returned" => skeleton.rotation = Reverse(AncestorChain(bones, RecordParent))

\* C21: every call of _get_parent_rotation, for a bone or a dummy of a decoded
\* skeleton whose bones have earlier bones as parents, returns, and the
\* rotations it has composed are those of the bones from the record's parent
\* up to and including bone 0, each once, in that order.
C21_ParentChainWalk ==
    /\ [](ChainComposed)
    /\ (pc = "_get_parent_rotation") ~> (pc = "returned")

====
